---- MODULE Spec2Model ----
(***************************************************************************)
(* A model of the NESemulator class of src/nestempoaory/main.cpp: the      *)
(* 6502 core (readMemory, writeMemory, reset, handleOpcode, the op*        *)
(* helpers, pushStack, pullStack, emulateCPU) and the driver (the          *)
(* constructor, init, run, main).                                          *)
(*                                                                         *)
(* The object is one record, cpu, with one field per data member (the      *)
(* leading underscore of the C++ names is dropped).  The arrays _ram and   *)
(* _rom are kept as finite maps of their non-zero cells: a cell that is    *)
(* not in the map holds 0, the value the constructor fills both arrays     *)
(* with.  A store of 0 removes the cell from the map, so two maps are      *)
(* equal exactly when the arrays are.                                      *)
(***************************************************************************)
EXTENDS Integers, Sequences, FiniteSets, TLC

VARIABLES filePath, cpu, pc, i, call

vars == <<filePath, cpu, pc, i, call>>

(***************************************************************************)
(* Program constants.                                                      *)
(***************************************************************************)
RAM_SIZE == 2048
ROM_BASE == 32768
ROM_SIZE == 32768
HEADER_SIZE == 16
STACK_BASE == 256
RESET_VECTOR == 65532
BRK_VECTOR == 65534
RUN_LIMIT == 1000

Byte == 0..255

\* An indeterminate byte: a data member that has no initializer and has not
\* been assigned yet (_addressBus and _header after construction).
Indeterminate == -1

(***************************************************************************)
(* Fixed-width arithmetic.                                                 *)
(***************************************************************************)
U8(n) == (n + 65536) % 256
U16(n) == (n + 65536) % 65536
Bit(v, k) == (v \div (2 ^ k)) % 2
Lo(w) == w % 256
Hi(w) == (w \div 256) % 256
\* (high << 8) | low
Word(high, low) == high * 256 + low
\* static_cast<int8_t>(b), and the "if (temp > 127) signedVal = temp - 256"
Signed(b) == IF b > 127 THEN b - 256 ELSE b

BitAnd(a, b) ==
    Bit(a, 0) * Bit(b, 0) + 2 * Bit(a, 1) * Bit(b, 1)
    + 4 * Bit(a, 2) * Bit(b, 2) + 8 * Bit(a, 3) * Bit(b, 3)
    + 16 * Bit(a, 4) * Bit(b, 4) + 32 * Bit(a, 5) * Bit(b, 5)
    + 64 * Bit(a, 6) * Bit(b, 6) + 128 * Bit(a, 7) * Bit(b, 7)
BitXor(a, b) == a + b - 2 * BitAnd(a, b)
BitOr(a, b) == a + b - BitAnd(a, b)

B2N(f) == IF f THEN 1 ELSE 0

(***************************************************************************)
(* The arrays as finite maps of their non-zero cells.                      *)
(***************************************************************************)
Cell(mem, k) == IF k \in DOMAIN mem THEN mem[k] ELSE 0

\* _rom[k].  The bytes of _rom below romHeld are the zeros of the
\* constructor or bytes of the file; one from romHeld on was copied from past the end of
\* the buffer of the file and is Indeterminate unless rom holds a byte
\* drawn for it.
RomByte(c, k) ==
    IF k \in DOMAIN c.rom THEN c.rom[k]
    ELSE IF k >= c.romHeld THEN Indeterminate
    ELSE 0

Store(mem, k, v) ==
    IF v = 0
    THEN [j \in DOMAIN mem \ {k} |-> mem[j]]
    ELSE [j \in DOMAIN mem \cup {k} |-> IF j = k THEN v ELSE mem[j]]

EmptyMem == [j \in {} |-> 0]

(***************************************************************************)
(* readMemory, writeMemory (main.cpp 37-57).                               *)
(***************************************************************************)
\* A read that answers 0xFF (open bus) outside both arrays.
readMemory_OpenBus(c, address) ==
    IF address < 2048
    THEN Cell(c.ram, address % RAM_SIZE)
    ELSE IF address >= ROM_BASE
         THEN RomByte(c, address - ROM_BASE)
         ELSE 255

readMemory(c, address) ==
    IF address < 2048
    THEN Cell(c.ram, address % RAM_SIZE)
    ELSE IF address >= ROM_BASE
         THEN RomByte(c, address - ROM_BASE)
         ELSE 0

\* A write that is decoded like a read: into _rom from 0x8000, dropped in the
\* unmapped region.
writeMemory_Decoded(c, address, value) ==
    IF address < 2048
    THEN [c EXCEPT !.ram = Store(c.ram, address % RAM_SIZE, value)]
    ELSE IF address >= ROM_BASE
         THEN [c EXCEPT !.rom = Store(c.rom, address - ROM_BASE, value)]
         ELSE c

writeMemory(c, address, value) ==
    [c EXCEPT !.ram = Store(c.ram, address % RAM_SIZE, value)]

(***************************************************************************)
(* pushStack, pullStack (main.cpp 1295-1305).  pullStack returns the       *)
(* object after the increment together with the byte read.                 *)
(***************************************************************************)
pushStack(c, value) ==
    LET w == writeMemory(c, U16(STACK_BASE + c.stackPointer), value)
    IN  [w EXCEPT !.stackPointer = U8(w.stackPointer - 1)]

\* Pulling from 0x0100 + SP + 1 without reducing the sum to the stack page.
pullStack_NoWrap(c) ==
    [cpu |-> [c EXCEPT !.stackPointer = U8(c.stackPointer + 1)],
     value |-> readMemory(c, STACK_BASE + c.stackPointer + 1)]

\* A pull that reads before it increments.
pullStack_ReadFirst(c) ==
    [cpu |-> [c EXCEPT !.stackPointer = U8(c.stackPointer + 1)],
     value |-> readMemory(c, U16(STACK_BASE + c.stackPointer))]

pullStack(c) ==
    LET n == [c EXCEPT !.stackPointer = U8(c.stackPointer + 1)]
    IN  [cpu |-> n, value |-> readMemory(n, U16(STACK_BASE + n.stackPointer))]

(***************************************************************************)
(* Small steps shared by the cases of handleOpcode.                        *)
(***************************************************************************)
\* _programCounter++
IncPC(c) == [c EXCEPT !.programCounter = U16(c.programCounter + 1)]
\* _cycleCount += n
Cycles(c, n) == [c EXCEPT !.cycleCount = c.cycleCount + n]
\* _flagZero = (v == 0); _flagNegative = (v > 127)
SetZN(c, v) == [c EXCEPT !.flagZero = (v = 0), !.flagNegative = (v > 127)]

\* The packed status byte of PHP and BRK.
packStatus(c) ==
    128 * B2N(c.flagNegative) + 64 * B2N(c.flagOverflow) + 32 + 16
    + 8 * B2N(c.flagDecimal) + 4 * B2N(c.flagInterruptDisable)
    + 2 * B2N(c.flagZero) + B2N(c.flagCarry)

\* The flag assignments of PLP and RTI from a pulled status byte.
unpackStatus(c, status) ==
    [c EXCEPT !.flagNegative = (Bit(status, 7) = 1),
              !.flagOverflow = (Bit(status, 6) = 1),
              !.flagDecimal = (Bit(status, 3) = 1),
              !.flagInterruptDisable = (Bit(status, 2) = 1),
              !.flagZero = (Bit(status, 1) = 1),
              !.flagCarry = (Bit(status, 0) = 1)]

(***************************************************************************)
(* Operand fetch.                                                          *)
(***************************************************************************)
\* The byte at _programCounter.
Operand(c) == readMemory(c, c.programCounter)

\* "low = readMemory(PC); PC++; high = readMemory(PC); PC++" and the 16-bit
\* address the cases that keep it in a ushort local form from the two bytes.
AbsOperand(c) ==
    Word(readMemory(c, U16(c.programCounter + 1)), readMemory(c, c.programCounter))
Skip2(c) == [c EXCEPT !.programCounter = U16(c.programCounter + 2)]

\* readOperandsAbsoluteAddress (main.cpp 1178-1185): the address is stored
\* in _addressBus, which is a std::uint8_t, so only its low byte is kept.
readOperandsAbsoluteAddress(c) ==
    [c EXCEPT !.programCounter = U16(c.programCounter + 2),
              !.addressBus = U8(AbsOperand(c))]

(***************************************************************************)
(* The op* helpers (main.cpp 1205-1293).                                   *)
(***************************************************************************)
opROL(c, address, input) ==
    LET futureFlagCarry == input > 127
        v == BitOr(U8(input * 2), B2N(c.flagCarry))
        w == writeMemory(c, address, v)
    IN  [w EXCEPT !.flagCarry = futureFlagCarry,
                  !.flagNegative = (v > 127),
                  !.flagZero = (v = 0)]

\* An increment that also reports the wrap of its result in Carry.
opINC_Carry(c, address, input) ==
    LET v == U8(input + 1)
        w == writeMemory(c, address, v)
    IN  [w EXCEPT !.flagNegative = (v > 127), !.flagZero = (v = 0),
                  !.flagCarry = (input = 255)]

opINC(c, address, input) ==
    LET v == U8(input + 1)
        w == writeMemory(c, address, v)
    IN  [w EXCEPT !.flagNegative = (v > 127), !.flagZero = (v = 0)]

opDEC(c, address, input) ==
    LET v == U8(input - 1)
        w == writeMemory(c, address, v)
    IN  [w EXCEPT !.flagNegative = (v > 127), !.flagZero = (v = 0)]

opORA(c, input) ==
    LET v == BitOr(c.A, input)
    IN  [c EXCEPT !.A = v, !.flagNegative = (v > 127), !.flagZero = (v = 0)]

opAND(c, input) ==
    LET v == BitAnd(c.A, input)
    IN  [c EXCEPT !.A = v, !.flagNegative = (v > 127), !.flagZero = (v = 0)]

opEOR(c, input) ==
    LET v == BitXor(c.A, input)
    IN  [c EXCEPT !.A = v, !.flagNegative = (v > 127), !.flagZero = (v = 0)]

\* An addition that leaves the carry out of the sum.
opADC_NoCarryIn(c, input) ==
    LET sum == c.A + input
        v == U8(sum)
    IN  [c EXCEPT !.flagCarry = (sum > 255),
                  !.flagOverflow = (Bit(c.A, 7) = Bit(input, 7)
                                    /\ Bit(c.A, 7) # Bit(sum, 7)),
                  !.A = v,
                  !.flagNegative = (v > 127),
                  !.flagZero = (v = 0)]

opADC(c, input) ==
    LET sum == c.A + input + B2N(c.flagCarry)
        v == U8(sum)
    IN  [c EXCEPT !.flagCarry = (sum > 255),
                  !.flagOverflow = (Bit(c.A, 7) = Bit(input, 7)
                                    /\ Bit(c.A, 7) # Bit(sum, 7)),
                  !.A = v,
                  !.flagNegative = (v > 127),
                  !.flagZero = (v = 0)]

\* A subtraction that never borrows.
opSBC_NoBorrow(c, input) ==
    LET intermediate == c.A + (255 - input) + 1
        result == intermediate % 256
    IN  [c EXCEPT !.flagCarry = (Bit(intermediate, 8) = 1),
                  !.flagOverflow = (Bit(c.A, 7) # Bit(result, 7)
                                    /\ Bit(c.A, 7) # Bit(input, 7)),
                  !.A = result,
                  !.flagNegative = (Bit(result, 7) = 1),
                  !.flagZero = (result = 0)]

opSBC(c, input) ==
    LET intermediate == c.A + (255 - input) + B2N(c.flagCarry)
        result == intermediate % 256
    IN  [c EXCEPT !.flagCarry = (Bit(intermediate, 8) = 1),
                  !.flagOverflow = (Bit(c.A, 7) # Bit(result, 7)
                                    /\ Bit(c.A, 7) # Bit(input, 7)),
                  !.A = result,
                  !.flagNegative = (Bit(result, 7) = 1),
                  !.flagZero = (result = 0)]

opCMP(c, input) ==
    LET diff == U8(c.A - input)
    IN  [c EXCEPT !.flagCarry = (c.A >= input),
                  !.flagZero = (c.A = input),
                  !.flagNegative = (Bit(diff, 7) = 1)]

opBIT(c, input) ==
    [c EXCEPT !.flagZero = (BitAnd(c.A, input) = 0),
              !.flagNegative = (Bit(input, 7) = 1),
              !.flagOverflow = (Bit(input, 6) = 1)]

\* The inline compare of the CPX and CPY cases: "reg - value > 127" is
\* evaluated in int, so a negative difference does not set Negative.
CompareInt(c, reg, value) ==
    [c EXCEPT !.flagCarry = (reg >= value),
              !.flagZero = (reg = value),
              !.flagNegative = (reg - value > 127)]

(***************************************************************************)
(* The cases of handleOpcode (main.cpp 111-1154).  Each takes the object   *)
(* as emulateCPU hands it over: the opcode fetched, _programCounter on the *)
(* byte after it.                                                          *)
(***************************************************************************)
\* case 0x02 (115-119)
HLT(c) == [c EXCEPT !.cpuHalted = TRUE]

\* An unknown opcode that is skipped like a NOP instead of halting.
UnknownOpcode_Skip(c) == Cycles(c, 2)

\* default (1149-1152)
UnknownOpcode(c) == [c EXCEPT !.cpuHalted = TRUE]

\* Loads (120-172, 1033-1070, 1101-1111)
LDY_Immediate(c) ==
    LET v == Operand(c)
    IN  Cycles(IncPC(SetZN([c EXCEPT !.Y = v], v)), 2)

LDX_Immediate(c) ==
    LET v == Operand(c)
    IN  Cycles(IncPC(SetZN([c EXCEPT !.X = v], v)), 2)

LDA_ZeroPage(c) ==
    LET zp == Operand(c)
        v == readMemory(c, zp)
    IN  Cycles(SetZN([IncPC(c) EXCEPT !.A = v], v), 3)

LDA_Immediate(c) ==
    LET v == Operand(c)
    IN  Cycles(IncPC(SetZN([c EXCEPT !.A = v], v)), 2)

LDA_Absolute(c) ==
    LET v == readMemory(c, AbsOperand(c))
    IN  Cycles(SetZN([Skip2(c) EXCEPT !.A = v], v), 4)

\* An indexed load whose index never carries into the high address byte.
LDA_AbsoluteIndexed_SamePage(c, index) ==
    LET baseAddr == AbsOperand(c)
        addr == Word(Hi(baseAddr), U8(Lo(baseAddr) + index))
        v == readMemory(c, addr)
    IN  Cycles(SetZN([Skip2(c) EXCEPT !.A = v], v), 4)

LDA_AbsoluteIndexed(c, index) ==
    LET baseAddr == AbsOperand(c)
        addr == U16(baseAddr + index)
        v == readMemory(c, addr)
    IN  Cycles(SetZN([Skip2(c) EXCEPT !.A = v], v),
               IF Hi(baseAddr) # Hi(addr) THEN 5 ELSE 4)

LDA_AbsoluteY(c) == LDA_AbsoluteIndexed(c, c.Y)

LDA_AbsoluteX(c) == LDA_AbsoluteIndexed(c, c.X)

LDA_ZeroPageX(c) ==
    LET zp == Operand(c)
        addr == U8(zp + c.X)
        v == readMemory(c, addr)
    IN  Cycles(SetZN([IncPC(c) EXCEPT !.A = v], v), 4)

\* Stores (173-226, 1093-1100, 1121-1148)
StoreZeroPage(c, reg) == Cycles(writeMemory(IncPC(c), Operand(c), reg), 3)

\* A store that keeps only the low byte of the absolute address.
StoreAbsolute_LowByte(c, reg) ==
    Cycles(writeMemory(Skip2(c), Lo(AbsOperand(c)), reg), 4)

StoreAbsolute(c, reg) == Cycles(writeMemory(Skip2(c), AbsOperand(c), reg), 4)

STA_ZeroPage(c) == StoreZeroPage(c, c.A)

STA_Absolute(c) == StoreAbsolute(c, c.A)

STX_ZeroPage(c) == StoreZeroPage(c, c.X)

STX_Absolute(c) == StoreAbsolute(c, c.X)

STY_ZeroPage(c) == StoreZeroPage(c, c.Y)

STY_Absolute(c) == StoreAbsolute(c, c.Y)

STA_ZeroPageX(c) ==
    Cycles(writeMemory(IncPC(c), U8(Operand(c) + c.X), c.A), 4)

\* A store through a pointer whose high byte is read from zp + 1 even when
\* that is 0x0100.
STA_IndirectY_NoWrap(c) ==
    LET zp == Operand(c)
        ptrLow == readMemory(c, zp)
        ptrHigh == readMemory(c, zp + 1)
        effective == U16(Word(ptrHigh, ptrLow) + c.Y)
    IN  Cycles(writeMemory(IncPC(c), effective, c.A), 6)

STA_IndirectY(c) ==
    LET zp == Operand(c)
        ptrLow == readMemory(c, zp)
        ptrHigh == readMemory(c, U8(zp + 1))
        effective == U16(Word(ptrHigh, ptrLow) + c.Y)
    IN  Cycles(writeMemory(IncPC(c), effective, c.A), 6)

STA_IndirectX(c) ==
    LET zp == Operand(c)
        ptrLow == readMemory(c, U8(zp + c.X))
        ptrHigh == readMemory(c, U8(zp + c.X + 1))
    IN  Cycles(writeMemory(IncPC(c), Word(ptrHigh, ptrLow), c.A), 6)

\* A branch that adds its operand to PC without sign extension.
BranchOn_Unsigned(c, taken) ==
    LET temp == Operand(c)
        n == Cycles(IncPC(c), 2)
    IN  IF taken
        THEN Cycles([n EXCEPT !.programCounter = U16(n.programCounter + temp)], 3)
        ELSE Cycles(n, 2)

\* Branches.  BPL, BMI, BEQ, BVS, BCS, BCC, BVC (227-268, 302-322, 949-1032)
\* add 2, then 3 when taken and 2 when not taken.
BranchOn(c, taken) ==
    LET temp == Operand(c)
        n == Cycles(IncPC(c), 2)
    IN  IF taken
        THEN Cycles([n EXCEPT !.programCounter =
                                  U16(n.programCounter + Signed(temp))], 3)
        ELSE Cycles(n, 2)

BPL(c) == BranchOn(c, ~c.flagNegative)

BMI(c) == BranchOn(c, c.flagNegative)

BEQ(c) == BranchOn(c, c.flagZero)

BVS(c) == BranchOn(c, c.flagOverflow)

BCS(c) == BranchOn(c, c.flagCarry)

BCC(c) == BranchOn(c, ~c.flagCarry)

BVC(c) == BranchOn(c, ~c.flagOverflow)

\* BNE (285-301) adds 2, 1 more when taken, 1 more when the page changes.
BNE(c) ==
    LET offset == Operand(c)
        n == Cycles(IncPC(c), 2)
        oldPC == n.programCounter
        newPC == U16(oldPC + Signed(offset))
    IN  IF ~c.flagZero
        THEN Cycles([n EXCEPT !.programCounter = newPC],
                    IF Hi(oldPC) # Hi(newPC) THEN 2 ELSE 1)
        ELSE n

\* Stack and subroutine linkage (323-361)
PHA(c) == Cycles(pushStack(c, c.A), 3)

PLA(c) ==
    LET p == pullStack(c)
    IN  Cycles(SetZN([p.cpu EXCEPT !.A = p.value], p.value), 4)

JSR(c) ==
    LET target == AbsOperand(c)
        n == Skip2(c)
        returnAddr == U16(n.programCounter - 1)
        p1 == pushStack(n, Hi(returnAddr))
        p2 == pushStack(p1, Lo(returnAddr))
    IN  Cycles([p2 EXCEPT !.programCounter = target], 6)

\* A return that does not step over the last byte of the JSR.
RTS_NoIncrement(c) ==
    LET p1 == pullStack(c)
        p2 == pullStack(p1.cpu)
    IN  Cycles([p2.cpu EXCEPT !.programCounter = Word(p2.value, p1.value)], 6)

RTS(c) ==
    LET p1 == pullStack(c)
        p2 == pullStack(p1.cpu)
        tempLow == p1.value
        tempHigh == p2.value
    IN  Cycles([p2.cpu EXCEPT !.programCounter = U16(Word(tempHigh, tempLow) + 1)], 6)

\* NOP, register increments and decrements, transfers (362-442)
NOP(c) == Cycles(c, 2)

INX(c) == LET v == U8(c.X + 1) IN Cycles(SetZN([c EXCEPT !.X = v], v), 2)

INY(c) == LET v == U8(c.Y + 1) IN Cycles(SetZN([c EXCEPT !.Y = v], v), 2)

DEX(c) == LET v == U8(c.X - 1) IN Cycles(SetZN([c EXCEPT !.X = v], v), 2)

DEY(c) == LET v == U8(c.Y - 1) IN Cycles(SetZN([c EXCEPT !.Y = v], v), 2)

TAX(c) == Cycles(SetZN([c EXCEPT !.X = c.A], c.A), 2)

TXA(c) == Cycles(SetZN([c EXCEPT !.A = c.X], c.X), 2)

TAY(c) == Cycles(SetZN([c EXCEPT !.Y = c.A], c.A), 2)

TYA(c) == Cycles(SetZN([c EXCEPT !.A = c.Y], c.Y), 2)

TXS(c) == Cycles([c EXCEPT !.stackPointer = c.X], 2)

TSX(c) == Cycles(SetZN([c EXCEPT !.X = c.stackPointer], c.stackPointer), 2)

\* Flag instructions (443-470)
SEC(c) == Cycles([c EXCEPT !.flagCarry = TRUE], 2)

\* A CLC that clears Overflow as well.
CLC_ClearsOverflow(c) ==
    Cycles([c EXCEPT !.flagCarry = FALSE, !.flagOverflow = FALSE], 2)

CLC(c) == Cycles([c EXCEPT !.flagCarry = FALSE], 2)

CLV(c) == Cycles([c EXCEPT !.flagOverflow = FALSE], 2)

SEI(c) == Cycles([c EXCEPT !.flagInterruptDisable = TRUE], 2)

CLI(c) == Cycles([c EXCEPT !.flagInterruptDisable = FALSE], 2)

SED(c) == Cycles([c EXCEPT !.flagDecimal = TRUE], 2)

CLD(c) == Cycles([c EXCEPT !.flagDecimal = FALSE], 2)

\* A PHP that pushes the break bit clear.
PHP_BreakClear(c) == Cycles(pushStack(c, packStatus(c) - 16), 3)

\* PHP, PLP (471-500)
PHP(c) == Cycles(pushStack(c, packStatus(c)), 3)

PLP(c) ==
    LET p == pullStack(c)
    IN  Cycles(unpackStatus(p.cpu, p.value), 4)

\* Shifts and rotates (501-638)
ASL_Accumulator(c) ==
    LET v == U8(c.A * 2)
    IN  Cycles(SetZN([c EXCEPT !.flagCarry = (c.A > 127), !.A = v], v), 2)

ASL_Memory(c, addr) ==
    LET v0 == readMemory(c, addr)
        v == U8(v0 * 2)
        w == writeMemory(c, addr, v)
    IN  SetZN([w EXCEPT !.flagCarry = (Bit(v0, 7) = 1)], v)

ASL_ZeroPage(c) == Cycles(ASL_Memory(IncPC(c), Operand(c)), 5)

ASL_Absolute(c) == Cycles(ASL_Memory(Skip2(c), AbsOperand(c)), 6)

ROL_ZeroPage(c) ==
    LET zp == Operand(c)
        v0 == readMemory(c, zp)
        v == BitOr(U8(v0 * 2), B2N(c.flagCarry))
        w == writeMemory(IncPC(c), zp, v)
    IN  Cycles(SetZN([w EXCEPT !.flagCarry = (Bit(v0, 7) = 1)], v), 5)

ROL_Absolute(c) ==
    LET n == readOperandsAbsoluteAddress(c)
    IN  Cycles(opROL(n, n.addressBus, readMemory(n, n.addressBus)), 6)

LSR_Accumulator(c) ==
    LET v == c.A \div 2
    IN  Cycles([c EXCEPT !.flagCarry = (Bit(c.A, 0) = 1),
                         !.A = v,
                         !.flagZero = (v = 0),
                         !.flagNegative = FALSE], 2)

LSR_ZeroPage(c) ==
    LET zpAddr == Operand(c)
        value == readMemory(c, zpAddr)
        v == value \div 2
        w == writeMemory(IncPC(c), zpAddr, v)
    IN  Cycles([w EXCEPT !.flagCarry = (Bit(value, 0) = 1),
                         !.flagZero = (v = 0),
                         !.flagNegative = FALSE], 5)

\* LSR Absolute (582-591) assigns Carry only.
LSR_Absolute(c) ==
    LET n == readOperandsAbsoluteAddress(c)
        value == readMemory(n, n.addressBus)
        w == writeMemory(n, n.addressBus, value \div 2)
    IN  Cycles([w EXCEPT !.flagCarry = (Bit(value, 0) = 1)], 6)

ROR_Accumulator(c) ==
    LET v == (c.A \div 2) + 128 * B2N(c.flagCarry)
    IN  Cycles([c EXCEPT !.flagCarry = (Bit(c.A, 0) = 1),
                         !.A = v,
                         !.flagZero = (v = 0),
                         !.flagNegative = (Bit(v, 7) = 1)], 2)

ROR_Memory(c, addr) ==
    LET value == readMemory(c, addr)
        v == (value \div 2) + 128 * B2N(c.flagCarry)
        w == writeMemory(c, addr, v)
    IN  [w EXCEPT !.flagCarry = (Bit(value, 0) = 1),
                  !.flagZero = (v = 0),
                  !.flagNegative = (v > 127)]

ROR_ZeroPage(c) == Cycles(ROR_Memory(IncPC(c), Operand(c)), 5)

ROR_Absolute(c) ==
    LET n == readOperandsAbsoluteAddress(c)
    IN  Cycles(ROR_Memory(n, n.addressBus), 6)

\* The operand of the cases that read it through an addressing mode and hand
\* it to an op* helper or an inline compare (639-710, 739-889).
ImmediateValue(c) == Operand(c)
ZeroPageValue(c) == readMemory(c, Operand(c))
AbsoluteValue(c) ==
    LET n == readOperandsAbsoluteAddress(c) IN readMemory(n, n.addressBus)

ORA_Immediate(c) == Cycles(IncPC(opORA(c, ImmediateValue(c))), 2)

ORA_ZeroPage(c) == Cycles(IncPC(opORA(c, ZeroPageValue(c))), 3)

ORA_Absolute(c) ==
    Cycles(opORA(readOperandsAbsoluteAddress(c), AbsoluteValue(c)), 4)

AND_Immediate(c) == Cycles(IncPC(opAND(c, ImmediateValue(c))), 2)

AND_ZeroPage(c) == Cycles(IncPC(opAND(c, ZeroPageValue(c))), 3)

AND_Absolute(c) ==
    Cycles(opAND(readOperandsAbsoluteAddress(c), AbsoluteValue(c)), 4)

EOR_Immediate(c) == Cycles(IncPC(opEOR(c, ImmediateValue(c))), 2)

EOR_ZeroPage(c) == Cycles(IncPC(opEOR(c, ZeroPageValue(c))), 3)

EOR_Absolute(c) ==
    Cycles(opEOR(readOperandsAbsoluteAddress(c), AbsoluteValue(c)), 4)

\* INC and DEC (711-738): the Zero Page cases call
\* readOperandsAbsoluteAddress too.
INC_ZeroPage(c) ==
    LET n == readOperandsAbsoluteAddress(c)
    IN  Cycles(opINC(n, n.addressBus, readMemory(n, n.addressBus)), 5)

INC_Absolute(c) ==
    LET n == readOperandsAbsoluteAddress(c)
    IN  Cycles(opINC(n, n.addressBus, readMemory(n, n.addressBus)), 6)

DEC_ZeroPage(c) ==
    LET n == readOperandsAbsoluteAddress(c)
    IN  Cycles(opDEC(n, n.addressBus, readMemory(n, n.addressBus)), 5)

DEC_Absolute(c) ==
    LET n == readOperandsAbsoluteAddress(c)
    IN  Cycles(opDEC(n, n.addressBus, readMemory(n, n.addressBus)), 6)

\* ADC, SBC, CMP (739-810, 1112-1120)
ADC_Immediate(c) == Cycles(IncPC(opADC(c, ImmediateValue(c))), 2)

ADC_ZeroPage(c) == Cycles(IncPC(opADC(c, ZeroPageValue(c))), 3)

ADC_Absolute(c) ==
    Cycles(opADC(readOperandsAbsoluteAddress(c), AbsoluteValue(c)), 4)

ADC_ZeroPageX(c) ==
    LET zpAddr == Operand(c)
        value == readMemory(c, U8(zpAddr + c.X))
    IN  Cycles(opADC(IncPC(c), value), 4)

SBC_Immediate(c) == Cycles(IncPC(opSBC(c, ImmediateValue(c))), 2)

SBC_ZeroPage(c) == Cycles(IncPC(opSBC(c, ZeroPageValue(c))), 3)

SBC_Absolute(c) ==
    Cycles(opSBC(readOperandsAbsoluteAddress(c), AbsoluteValue(c)), 4)

CMP_Immediate(c) == Cycles(IncPC(opCMP(c, ImmediateValue(c))), 2)

CMP_ZeroPage(c) == Cycles(IncPC(opCMP(c, ZeroPageValue(c))), 3)

CMP_Absolute(c) ==
    Cycles(opCMP(readOperandsAbsoluteAddress(c), AbsoluteValue(c)), 4)

\* CPX, CPY (811-872)
CPX_Immediate(c) == Cycles(IncPC(CompareInt(c, c.X, ImmediateValue(c))), 2)

CPX_ZeroPage(c) == Cycles(IncPC(CompareInt(c, c.X, ZeroPageValue(c))), 3)

CPX_Absolute(c) ==
    Cycles(CompareInt(readOperandsAbsoluteAddress(c), c.X, AbsoluteValue(c)), 4)

CPY_Immediate(c) == Cycles(IncPC(CompareInt(c, c.Y, ImmediateValue(c))), 2)

CPY_ZeroPage(c) == Cycles(IncPC(CompareInt(c, c.Y, ZeroPageValue(c))), 3)

CPY_Absolute(c) ==
    Cycles(CompareInt(readOperandsAbsoluteAddress(c), c.Y, AbsoluteValue(c)), 4)

\* BIT (873-889)
BIT_ZeroPage(c) == Cycles(IncPC(opBIT(c, ZeroPageValue(c))), 3)

BIT_Absolute(c) ==
    Cycles(opBIT(readOperandsAbsoluteAddress(c), AbsoluteValue(c)), 4)

\* A BRK that pushes the status as an IRQ would, with the break bit clear.
BRK_NoBreakBit(c) ==
    LET n == IncPC(c)
        returnPC == n.programCounter
        p1 == pushStack(n, Hi(returnPC))
        p2 == pushStack(p1, Lo(returnPC))
        p3 == pushStack(p2, packStatus(p2) - 16)
        d == [p3 EXCEPT !.flagInterruptDisable = TRUE]
        pcl == readMemory(d, BRK_VECTOR)
        pch == readMemory(d, BRK_VECTOR + 1)
    IN  Cycles([d EXCEPT !.programCounter = Word(pch, pcl)], 7)

\* An RTI that leaves InterruptDisable as the handler had it.
RTI_KeepInterruptDisable(c) ==
    LET p0 == pullStack(c)
        f == [unpackStatus(p0.cpu, p0.value)
                 EXCEPT !.flagInterruptDisable = c.flagInterruptDisable]
        p1 == pullStack(f)
        p2 == pullStack(p1.cpu)
    IN  Cycles([p2.cpu EXCEPT !.programCounter = Word(p2.value, p1.value)], 6)

\* BRK, RTI (890-938)
BRK(c) ==
    LET n == IncPC(c)
        returnPC == n.programCounter
        p1 == pushStack(n, Hi(returnPC))
        p2 == pushStack(p1, Lo(returnPC))
        p3 == pushStack(p2, packStatus(p2))
        d == [p3 EXCEPT !.flagInterruptDisable = TRUE]
        pcl == readMemory(d, BRK_VECTOR)
        pch == readMemory(d, BRK_VECTOR + 1)
    IN  Cycles([d EXCEPT !.programCounter = Word(pch, pcl)], 7)

RTI(c) ==
    LET p0 == pullStack(c)
        f == unpackStatus(p0.cpu, p0.value)
        p1 == pullStack(f)
        p2 == pullStack(p1.cpu)
    IN  Cycles([p2.cpu EXCEPT !.programCounter = Word(p2.value, p1.value)], 6)

\* JMP (939-948, 1071-1092)
JMP_Absolute(c) == Cycles([c EXCEPT !.programCounter = AbsOperand(c)], 3)

\* An indirect jump that always reads the high byte from ptr + 1.
JMP_Indirect_NextByte(c) ==
    LET ptr == AbsOperand(c)
        targetLow == readMemory(c, ptr)
        targetHigh == readMemory(c, U16(ptr + 1))
    IN  Cycles([c EXCEPT !.programCounter = Word(targetHigh, targetLow)], 5)

JMP_Indirect(c) ==
    LET ptr == AbsOperand(c)
        targetLow == readMemory(c, ptr)
        targetHigh == IF Lo(ptr) = 255
                      THEN readMemory(c, ptr - Lo(ptr))
                      ELSE readMemory(c, U16(ptr + 1))
    IN  Cycles([c EXCEPT !.programCounter = Word(targetHigh, targetLow)], 5)

(***************************************************************************)
(* handleOpcode (main.cpp 111-1154): the switch, in the order of its case  *)
(* labels.                                                                 *)
(***************************************************************************)
handleOpcode(c, opcode) ==
    CASE opcode = \h02 -> HLT(c)
      [] opcode = \hA0 -> LDY_Immediate(c)
      [] opcode = \hA2 -> LDX_Immediate(c)
      [] opcode = \hA5 -> LDA_ZeroPage(c)
      [] opcode = \hA9 -> LDA_Immediate(c)
      [] opcode = \hAD -> LDA_Absolute(c)
      [] opcode = \h85 -> STA_ZeroPage(c)
      [] opcode = \h8D -> STA_Absolute(c)
      [] opcode = \h86 -> STX_ZeroPage(c)
      [] opcode = \h8E -> STX_Absolute(c)
      [] opcode = \h84 -> STY_ZeroPage(c)
      [] opcode = \h8C -> STY_Absolute(c)
      [] opcode = \h10 -> BPL(c)
      [] opcode = \h30 -> BMI(c)
      [] opcode = \hD0 -> BNE(c)
      [] opcode = \hF0 -> BEQ(c)
      [] opcode = \h48 -> PHA(c)
      [] opcode = \h68 -> PLA(c)
      [] opcode = \h20 -> JSR(c)
      [] opcode = \h60 -> RTS(c)
      [] opcode = \hEA -> NOP(c)
      [] opcode = \hE8 -> INX(c)
      [] opcode = \hC8 -> INY(c)
      [] opcode = \hCA -> DEX(c)
      [] opcode = \h88 -> DEY(c)
      [] opcode = \hAA -> TAX(c)
      [] opcode = \h8A -> TXA(c)
      [] opcode = \hA8 -> TAY(c)
      [] opcode = \h98 -> TYA(c)
      [] opcode = \h9A -> TXS(c)
      [] opcode = \hBA -> TSX(c)
      [] opcode = \h38 -> SEC(c)
      [] opcode = \h18 -> CLC(c)
      [] opcode = \hB8 -> CLV(c)
      [] opcode = \h78 -> SEI(c)
      [] opcode = \h58 -> CLI(c)
      [] opcode = \hF8 -> SED(c)
      [] opcode = \hD8 -> CLD(c)
      [] opcode = \h08 -> PHP(c)
      [] opcode = \h28 -> PLP(c)
      [] opcode = \h0A -> ASL_Accumulator(c)
      [] opcode = \h06 -> ASL_ZeroPage(c)
      [] opcode = \h0E -> ASL_Absolute(c)
      [] opcode = \h26 -> ROL_ZeroPage(c)
      [] opcode = \h2E -> ROL_Absolute(c)
      [] opcode = \h4A -> LSR_Accumulator(c)
      [] opcode = \h46 -> LSR_ZeroPage(c)
      [] opcode = \h4E -> LSR_Absolute(c)
      [] opcode = \h6A -> ROR_Accumulator(c)
      [] opcode = \h66 -> ROR_ZeroPage(c)
      [] opcode = \h6E -> ROR_Absolute(c)
      [] opcode = \h09 -> ORA_Immediate(c)
      [] opcode = \h05 -> ORA_ZeroPage(c)
      [] opcode = \h0D -> ORA_Absolute(c)
      [] opcode = \h29 -> AND_Immediate(c)
      [] opcode = \h25 -> AND_ZeroPage(c)
      [] opcode = \h2D -> AND_Absolute(c)
      [] opcode = \h49 -> EOR_Immediate(c)
      [] opcode = \h45 -> EOR_ZeroPage(c)
      [] opcode = \h4D -> EOR_Absolute(c)
      [] opcode = \hE6 -> INC_ZeroPage(c)
      [] opcode = \hEE -> INC_Absolute(c)
      [] opcode = \hC6 -> DEC_ZeroPage(c)
      [] opcode = \hCE -> DEC_Absolute(c)
      [] opcode = \h69 -> ADC_Immediate(c)
      [] opcode = \h65 -> ADC_ZeroPage(c)
      [] opcode = \h6D -> ADC_Absolute(c)
      [] opcode = \hE9 -> SBC_Immediate(c)
      [] opcode = \hE5 -> SBC_ZeroPage(c)
      [] opcode = \hED -> SBC_Absolute(c)
      [] opcode = \hC9 -> CMP_Immediate(c)
      [] opcode = \hC5 -> CMP_ZeroPage(c)
      [] opcode = \hCD -> CMP_Absolute(c)
      [] opcode = \hE0 -> CPX_Immediate(c)
      [] opcode = \hE4 -> CPX_ZeroPage(c)
      [] opcode = \hEC -> CPX_Absolute(c)
      [] opcode = \hC0 -> CPY_Immediate(c)
      [] opcode = \hC4 -> CPY_ZeroPage(c)
      [] opcode = \hCC -> CPY_Absolute(c)
      [] opcode = \h24 -> BIT_ZeroPage(c)
      [] opcode = \h2C -> BIT_Absolute(c)
      [] opcode = \h00 -> BRK(c)
      [] opcode = \h40 -> RTI(c)
      [] opcode = \h4C -> JMP_Absolute(c)
      [] opcode = \h70 -> BVS(c)
      [] opcode = \hB0 -> BCS(c)
      [] opcode = \h90 -> BCC(c)
      [] opcode = \h50 -> BVC(c)
      [] opcode = \hB9 -> LDA_AbsoluteY(c)
      [] opcode = \hBD -> LDA_AbsoluteX(c)
      [] opcode = \h6C -> JMP_Indirect(c)
      [] opcode = \h95 -> STA_ZeroPageX(c)
      [] opcode = \hB5 -> LDA_ZeroPageX(c)
      [] opcode = \h75 -> ADC_ZeroPageX(c)
      [] opcode = \h91 -> STA_IndirectY(c)
      [] opcode = \h81 -> STA_IndirectX(c)
      [] OTHER -> UnknownOpcode(c)

(***************************************************************************)
(* emulateCPU (main.cpp 1307-1312).                                        *)
(***************************************************************************)
emulateCPU(c) == handleOpcode(IncPC(c), readMemory(c, c.programCounter))

(***************************************************************************)
(* The ROM files.  A file is its length and the map of its non-zero bytes  *)
(* by offset; NoFile is a path that cannot be opened.                      *)
(***************************************************************************)
FULL_SIZE == HEADER_SIZE + ROM_SIZE

NoFile == [exists |-> FALSE, size |-> 0, bytes |-> EmptyMem]

\* The file offsets and bytes of a byte sequence that the image maps at CPU
\* address addr (ROM_BASE and above).
At(addr, seq) ==
    [o \in {HEADER_SIZE + (addr - ROM_BASE) + k - 1 : k \in 1..Len(seq)}
        |-> seq[o - (HEADER_SIZE + (addr - ROM_BASE)) + 1]]

\* An iNES header: "NES", 0x1A, 2 PRG banks, 1 CHR bank, the rest 0.
HeaderBytes ==
    [o \in 0..5 |-> <<\h4E, \h45, \h53, \h1A, 2, 1>>[o + 1]]

\* The reset vector and the BRK vector, low byte first.
VectorsAt(resetTo, brkTo) ==
    At(RESET_VECTOR, <<Lo(resetTo), Hi(resetTo), Lo(brkTo), Hi(brkTo)>>)

Image(bytes) == [exists |-> TRUE, size |-> FULL_SIZE, bytes |-> HeaderBytes @@ bytes]

\* The byte at offset o of the buffer of headeredRom.  Past the end of the
\* buffer it is the byte drawn for that offset, if one was drawn, and
\* Indeterminate otherwise.
FileByte(file, o) ==
    IF o \in DOMAIN file.bytes THEN file.bytes[o]
    ELSE IF o >= file.size THEN Indeterminate
    ELSE 0

(***************************************************************************)
(* reset (main.cpp 59-109).  The two std::copy calls read 0x10 + 0x8000    *)
(* bytes from the buffer of headeredRom whatever its size: for a shorter   *)
(* file they read past its end, which is undefined.  Loaded is what the    *)
(* copies then see when the process survives: the bytes of the file and,   *)
(* from offset size on, whatever the memory after the buffer holds.        *)
(***************************************************************************)
\* The offsets the copies read past the end of the buffer: every offset
\* from size on.  The byte there is whatever the memory after the buffer
\* holds, any byte at any of these offsets.
JunkAt(file) == file.size..(FULL_SIZE - 1)

\* The offsets of the two vectors, the bytes past the end that reset and
\* BRK go on to read; JunkBytes are the values drawn for them.  Every other
\* byte past the end stays Indeterminate.
JunkBytes == {\h00, \h80}
JunkOffsets ==
    {HEADER_SIZE + (a - ROM_BASE) :
        a \in {RESET_VECTOR, RESET_VECTOR + 1, BRK_VECTOR, BRK_VECTOR + 1}}
Junk(file) ==
    IF file.exists /\ file.size < FULL_SIZE
    THEN [{o \in JunkOffsets : o \in JunkAt(file)} -> JunkBytes]
    ELSE {EmptyMem}

Loaded(file, junk) ==
    IF ~file.exists \/ file.size >= FULL_SIZE
    THEN file
    ELSE [file EXCEPT !.bytes =
             [o \in {x \in DOMAIN file.bytes : x < file.size} \cup DOMAIN junk
                 |-> IF o < file.size THEN file.bytes[o] ELSE junk[o]]]

\* The number of bytes of _rom the second std::copy takes from the file.
\* The bytes of _rom from there on are copied from past the end of the
\* buffer: rom holds the ones drawn, the others are Indeterminate.
RomHeld(file) ==
    IF file.size >= FULL_SIZE THEN ROM_SIZE
    ELSE IF file.size <= HEADER_SIZE THEN 0
    ELSE file.size - HEADER_SIZE

\* A reset that reads the vector high byte first.
reset_BigEndianVector(c, file) ==
    LET r == [c EXCEPT !.programCounter = 0,
                       !.A = 0, !.X = 0, !.Y = 0,
                       !.flagCarry = FALSE,
                       !.flagZero = FALSE,
                       !.flagInterruptDisable = TRUE,
                       !.flagDecimal = FALSE,
                       !.flagOverflow = FALSE,
                       !.flagNegative = FALSE,
                       !.stackPointer = \hFD]
        romCells == {o - HEADER_SIZE :
                        o \in {x \in DOMAIN file.bytes :
                                 /\ x >= HEADER_SIZE
                                 /\ x < HEADER_SIZE + ROM_SIZE
                                 /\ (file.bytes[x] # 0 \/ x >= file.size)}}
        l == [r EXCEPT !.header = [k \in 0..(HEADER_SIZE - 1) |-> FileByte(file, k)],
                       !.rom = [k \in romCells |-> file.bytes[k + HEADER_SIZE]],
                       !.romHeld = RomHeld(file)]
        PCL == readMemory(l, RESET_VECTOR)
        PCH == readMemory(l, RESET_VECTOR + 1)
    IN  IF ~file.exists
        THEN r
        ELSE [l EXCEPT !.programCounter = Word(PCL, PCH)]

reset(c, file) ==
    LET r == [c EXCEPT !.programCounter = 0,
                       !.A = 0, !.X = 0, !.Y = 0,
                       !.flagCarry = FALSE,
                       !.flagZero = FALSE,
                       !.flagInterruptDisable = TRUE,
                       !.flagDecimal = FALSE,
                       !.flagOverflow = FALSE,
                       !.flagNegative = FALSE,
                       !.stackPointer = \hFD]
        romCells == {o - HEADER_SIZE :
                        o \in {x \in DOMAIN file.bytes :
                                 /\ x >= HEADER_SIZE
                                 /\ x < HEADER_SIZE + ROM_SIZE
                                 /\ (file.bytes[x] # 0 \/ x >= file.size)}}
        l == [r EXCEPT !.header = [k \in 0..(HEADER_SIZE - 1) |-> FileByte(file, k)],
                       !.rom = [k \in romCells |-> file.bytes[k + HEADER_SIZE]],
                       !.romHeld = RomHeld(file)]
        PCL == readMemory(l, RESET_VECTOR)
        PCH == readMemory(l, RESET_VECTOR + 1)
    IN  IF ~file.exists
        THEN r
        ELSE [l EXCEPT !.programCounter = Word(PCH, PCL)]

(***************************************************************************)
(* The constructor (main.cpp 1315-1319) and the member initializers        *)
(* (11-35).  The six flags have no initializer: they hold any value until  *)
(* reset assigns them.                                                     *)
(***************************************************************************)
Constructed(flags) ==
    [programCounter |-> 0, A |-> 0, X |-> 0, Y |-> 0,
     addressBus |-> Indeterminate,
     header |-> [k \in 0..(HEADER_SIZE - 1) |-> Indeterminate],
     ram |-> EmptyMem, rom |-> EmptyMem, romHeld |-> ROM_SIZE,
     flagCarry |-> flags[1], flagZero |-> flags[2],
     flagInterruptDisable |-> flags[3], flagDecimal |-> flags[4],
     flagOverflow |-> flags[5], flagNegative |-> flags[6],
     stackPointer |-> \hFF, cpuHalted |-> FALSE, cycleCount |-> 0]

(***************************************************************************)
(* The files main can be given.  A file path is a record that names the    *)
(* program the file holds; Files maps it to the file.                      *)
(***************************************************************************)
\* Where the programs below are assembled, and the HLT their BRK vector
\* points at.
ORG == ROM_BASE
STOP == ROM_BASE + 64

\* Where the interrupt handler of the RTI program is.
HANDLER == ROM_BASE + 96

\* A9 05 8D 00 02 A9 00 8D 01 02 4C 00 80 at 0x8000, reset vector 0x8000.
EndToEndProgram ==
    <<\hA9, \h05, \h8D, \h00, \h02, \hA9, \h00, \h8D, \h01, \h02, \h4C, \h00, \h80>>

\* One opcode byte followed by HLT bytes as operands and successors.
OpcodeProgram(b) == <<b, \h02, \h02, \h02, \h02>>

\* LDA #v; STA (a mod 2048); JMP a: the RAM cell that mirrors a holds v, and
\* the next fetch is from a.  The file also holds v at a when a is in ROM.
ProbeProgram(a, v) ==
    <<\hA9, v, \h8D, Lo(a % RAM_SIZE), Hi(a % RAM_SIZE), \h4C, Lo(a), Hi(a)>>

\* LDX #$77; STX $07FF; STX $00; LDA #v; STA a; STX a; STY a; HLT: absolute
\* stores to a over RAM that already holds other bytes.
StoreProgram(a, v) ==
    <<\hA2, \h77, \h8E, \hFF, \h07, \h86, \h00, \hA9, v,
      \h8D, Lo(a), Hi(a), \h8E, Lo(a), Hi(a), \h8C, Lo(a), Hi(a), \h02>>

\* The prologue of the JSR program at 0xA000: LDA #hi(T); STA $00;
\* LDX #sp; TXS; JMP P.  The file holds JSR T at P (as far as P..P+2 lie
\* below 0x10000; the byte at 0x0000 is the one the prologue stored), RTS at
\* T and HLT after the JSR.
JSR_ORG == ROM_BASE + 8192
JsrPrologue(P, T, sp) ==
    <<\hA9, Hi(T), \h85, \h00, \hA2, sp, \h9A, \h4C, Lo(P), Hi(P)>>
JsrBytes(P, T) ==
    LET code == <<\h20, Lo(T), Hi(T), \h02>>
        inRom == {k \in 1..4 : P + k - 1 <= 65535}
    IN  [o \in {HEADER_SIZE + (P - ROM_BASE) + k - 1 : k \in inRom}
            |-> code[o - (HEADER_SIZE + (P - ROM_BASE)) + 1]]

\* LDX #sp; TXS; LDA #f; PHA; PLP; JMP P, and BRK with a pad byte at P: the
\* flags are those of the byte f when BRK executes.
BrkPrologue(P, f, sp) ==
    <<\hA2, sp, \h9A, \hA9, f, \h48, \h28, \h4C, Lo(P), Hi(P)>>

\* LDA #f; PHA; PLP; JMP P, and a branch with its offset at P.
BranchPrologue(P, f) == <<\hA9, f, \h48, \h28, \h4C, Lo(P), Hi(P)>>

\* The byte after p, and the first byte of the page of p.
NextByte(p) == (p + 1) % 65536
PageStart(p) == p - (p % 256)

\* LDA #lo; STA p; LDA #hi; STA PageStart(p); LDA #other; STA NextByte(p);
\* JMP (p): for p in RAM the three stores put distinct bytes at p, at the
\* start of its page and after it (the later store wins where two of the
\* addresses coincide); for p in ROM the file holds them.
JmpIndirectProgram(p, lo, hi, other) ==
    <<\hA9, lo, \h8D, Lo(p), Hi(p),
      \hA9, hi, \h8D, Lo(PageStart(p)), Hi(PageStart(p)),
      \hA9, other, \h8D, Lo(NextByte(p)), Hi(NextByte(p)),
      \h6C, Lo(p), Hi(p)>>
InRom(addr, seq) == IF addr >= ROM_BASE THEN At(addr, seq) ELSE EmptyMem

\* LDA #mv; STA $10; LDX #x; TXS; LDA #a; PHA; LDY #y; SEC or CLC, and then
\* one instruction with the operand bytes m, 0: memory cell 0x10 holds mv,
\* the byte on top of the stack is a, SP is x - 1.
OperandProgram(op, a, x, y, m, mv, c) ==
    <<\hA9, mv, \h85, \h10, \hA2, x, \h9A, \hA9, a, \h48, \hA0, y,
      (IF c = 1 THEN \h38 ELSE \h18), op, m, \h00, \h02>>

\* LDA #a; SEC or CLC; then two immediate instructions with the operand b
\* (ADC #b; SBC #b, or SBC #b; ADC #b).
ArithProgram(ops, a, b, c) ==
    <<\hA9, a, (IF c = 1 THEN \h38 ELSE \h18), ops[1], b, ops[2], b, \h02>>

\* LDX #sp; TXS; LDA #f; PHA, and then PLP; PHP; PLP: the first PLP pulls
\* the byte f.
StatusProgram(f, sp) == <<\hA2, sp, \h9A, \hA9, f, \h48, \h28, \h08, \h28, \h02>>

\* LDA #v; STA addr for each <<addr, v>> of cells.
CellStores(cells) ==
    [k \in 1..(5 * Len(cells)) |->
        LET cell == cells[((k - 1) \div 5) + 1]
            j == (k - 1) % 5
        IN  CASE j = 0 -> \hA9
              [] j = 1 -> cell[2]
              [] j = 2 -> \h8D
              [] j = 3 -> Lo(cell[1])
              [] j = 4 -> Hi(cell[1])]

\* The stores of cells, then LDA #f; PHA; LDX #x; LDY #y; LDA #a; PLP, and
\* then code: the flags are those of the byte f, the registers a, x, y and
\* SP as reset left it when the first instruction of code executes.
RegsProgram(f, a, x, y, cells, code) ==
    CellStores(cells)
        \o <<\hA9, f, \h48, \hA2, x, \hA0, y, \hA9, a, \h28>>
        \o code \o <<\h02>>

\* The stores of cells, then LDX #sp; TXS; LDA #f; PHA; LDA #a; PLP, and then
\* code: SP is sp, the flags are those of the byte f and the accumulator is
\* a when the first instruction of code executes.
StackOpProgram(f, a, sp, cells, code) ==
    CellStores(cells)
        \o <<\hA2, sp, \h9A, \hA9, f, \h48, \hA9, a, \h28>>
        \o code \o <<\h02>>

Files(path) ==
    CASE path.kind = "missing" -> NoFile
      [] path.kind = "e2e" ->
            Image(At(ORG, EndToEndProgram) @@ VectorsAt(ORG, 0))
      [] path.kind = "opcode" ->
            Image(At(ORG, OpcodeProgram(path.b)) @@ At(STOP, <<\h02>>)
                  @@ VectorsAt(ORG, STOP))
      [] path.kind = "top" ->
            Image(At(RESET_VECTOR, <<\hFF, \hFF, \hFF, path.b>>))
      [] path.kind = "store" ->
            Image(At(ORG, StoreProgram(path.a, path.v)) @@ VectorsAt(ORG, STOP))
      [] path.kind = "jsr" ->
            Image(At(JSR_ORG, JsrPrologue(path.P, path.T, path.sp))
                  @@ JsrBytes(path.P, path.T)
                  @@ At(path.T, <<\h60>>)
                  @@ VectorsAt(JSR_ORG, STOP) @@ At(STOP, <<\h02>>))
      [] path.kind = "brk" ->
            Image(At(ORG, BrkPrologue(path.P, path.f, path.sp))
                  @@ At(path.P, <<\h00, \hEA>>)
                  @@ VectorsAt(ORG, STOP) @@ At(STOP, <<\h02>>))
      [] path.kind = "rti" ->
            Image(At(ORG, BrkPrologue(path.P, path.f, path.sp))
                  @@ At(path.P, <<\h00, \hEA>>)
                  @@ VectorsAt(ORG, HANDLER) @@ At(HANDLER, <<\h40>>))
      [] path.kind = "branch" ->
            Image(At(ORG, BranchPrologue(path.P, path.f))
                  @@ At(path.P, <<path.op, path.off>>)
                  @@ VectorsAt(ORG, STOP) @@ At(STOP, <<\h02>>))
      [] path.kind = "jmpind" ->
            Image(InRom(NextByte(path.p), <<path.other>>)
                  @@ InRom(PageStart(path.p), <<path.hi>>)
                  @@ InRom(path.p, <<path.lo>>)
                  @@ At(ORG, JmpIndirectProgram(path.p, path.lo, path.hi, path.other))
                  @@ VectorsAt(ORG, STOP) @@ At(STOP, <<\h02>>))
      [] path.kind = "operand" ->
            Image(At(ORG, OperandProgram(path.op, path.a, path.x, path.y,
                                         path.m, path.mv, path.c))
                  @@ VectorsAt(ORG, STOP) @@ At(STOP, <<\h02>>))
      [] path.kind = "arith" ->
            Image(At(ORG, ArithProgram(path.ops, path.a, path.b, path.c))
                  @@ VectorsAt(ORG, STOP) @@ At(STOP, <<\h02>>))
      [] path.kind = "status" ->
            Image(At(ORG, StatusProgram(path.f, path.sp))
                  @@ VectorsAt(ORG, STOP) @@ At(STOP, <<\h02>>))
      [] path.kind = "short" ->
            [exists |-> TRUE, size |-> path.size,
             bytes |-> LET full == Image(At(ORG, EndToEndProgram) @@ VectorsAt(ORG, 0)).bytes
                       IN  [o \in {x \in DOMAIN full : x < path.size} |-> full[o]]]
      [] path.kind = "at" ->
            Image(At(ORG, BrkPrologue(path.P, path.f, path.sp))
                  @@ At(path.P, path.code)
                  @@ VectorsAt(ORG, STOP) @@ At(STOP, <<\h02>>))
      [] path.kind = "regs" ->
            Image(At(ORG, RegsProgram(path.f, path.a, path.x, path.y,
                                      path.cells, path.code))
                  @@ VectorsAt(ORG, STOP) @@ At(STOP, <<\h02>>))
      [] path.kind = "stackop" ->
            Image(At(ORG, StackOpProgram(path.f, path.a, path.sp, path.cells,
                                         path.code))
                  @@ VectorsAt(ORG, STOP) @@ At(STOP, <<\h02>>))
      [] path.kind = "stack" ->
            Image(At(ORG, <<\hA2, path.sp, \h9A, \h02>>) @@ VectorsAt(ORG, STOP))
      [] path.kind = "probe" ->
            Image(At(ORG, ProbeProgram(path.a, path.v)) @@ At(STOP, <<\h02>>)
                  @@ VectorsAt(ORG, STOP)
                  @@ (IF path.a >= ROM_BASE THEN At(path.a, <<path.v>>) ELSE EmptyMem))

\* The addresses, bytes and stack pointers the programs are run with.
StoreAddresses ==
    {\h0000, \h0200, \h07FF, \h0800, \h0A00, \h1FFF, \h2000, \h4005, \h7FFF,
     \h8000, \h8009, \hFFFC, \hFFFF}
StoreValues == {\h00, \h5B, \hFF}
StackPointers == {\h00, \h01, \h02, \h80, \hFD, \hFF}
JsrSites == {\hA010, \hA0FD, \hA0FE, \hFFF0, \hFFFE}
JsrTargets == {\h8000, \h8001, \h80FF, \h9000, \hC0DE, \hFFFB, \hFFFF}
BrkSites == {\h800A, \h80FE, \h80FF}
BrkFlags == {\h00, \h01, \h02, \h04, \h08, \h40, \h80, \hC3, \h3C, \hFF}

\* The JSR at P and the RTS at T do not overlap.
JsrPaths ==
    {path \in [kind : {"jsr"}, P : JsrSites, T : JsrTargets, sp : StackPointers] :
        path.T \notin {path.P + k : k \in 0..3} /\ path.T \notin {(path.P + k) % 65536 : k \in 0..3}}

\* The sizes of the truncated end-to-end images.
ShortSizes == {0, HEADER_SIZE - 1, HEADER_SIZE + 1, FULL_SIZE - 1}

FilePaths ==
    {[kind |-> "missing"], [kind |-> "e2e"]}
    \cup [kind : {"short"}, size : ShortSizes]
    \cup {[kind |-> "opcode", b |-> b] : b \in Byte}
    \cup {[kind |-> "top", b |-> b] : b \in {\h02, \hFF, \hEA, \h03}}
    \cup [kind : {"store"}, a : StoreAddresses, v : StoreValues]
    \cup JsrPaths
    \cup [kind : {"brk"}, P : BrkSites, f : BrkFlags, sp : StackPointers]

(***************************************************************************)
(* main (main.cpp 1340-1347): construct, init, run.                        *)
(***************************************************************************)
NoCall == [op |-> "main"]

\* NESemulator emulator("..."): the state after construction.
Init ==
    /\ filePath \in FilePaths
    /\ \E flags \in [1..6 -> BOOLEAN] : cpu = Constructed(flags)
    /\ pc = "constructed"
    /\ i = 0
    /\ call = NoCall

\* emulator.init(), and the entry of run up to "int i = 0"
init ==
    /\ pc = "constructed"
    /\ LET file == Files(filePath)
       IN  \E junk \in Junk(file) :
              cpu' = reset(cpu, Loaded(file, junk))
    /\ pc' = "run"
    /\ i' = 0
    /\ UNCHANGED <<filePath, call>>

\* emulator.init() on a file shorter than 0x10 + 0x8000 bytes, when a read
\* past the end of the buffer faults: the process is killed inside reset.
initFault ==
    /\ pc = "constructed"
    /\ LET file == Files(filePath)
       IN  file.exists /\ file.size < FULL_SIZE
    /\ pc' = "crashed"
    /\ UNCHANGED <<filePath, cpu, i, call>>

\* A loop that tests only the step counter.
LoopCondition_IgnoreHalted(c, n) == n < RUN_LIMIT

\* while (!_cpuHalted && i < 1000)
LoopCondition(c, n) == ~c.cpuHalted /\ n < RUN_LIMIT

\* The operand bytes handleOpcode reads after each opcode: none, one or two.
ImpliedOpcodes ==
    {\h02, \hEA, \hE8, \hC8, \hCA, \h88, \hAA, \h8A, \hA8, \h98, \h9A, \hBA,
     \h38, \h18, \hB8, \h78, \h58, \hF8, \hD8, \h48, \h68, \h08, \h28, \h0A,
     \h4A, \h6A}
OneByteOperandOpcodes ==
    {\hA0, \hA2, \hA9, \h09, \h29, \h49, \h69, \hE9, \hC9, \hE0, \hC0,
     \hA5, \h85, \h86, \h84, \h06, \h26, \h46, \h66, \h05, \h25, \h45, \hE6,
     \hC6, \h65, \hE5, \hC5, \hE4, \hC4, \h24,
     \h95, \hB5, \h75, \h91, \h81}
TwoByteOperandOpcodes ==
    {\hAD, \h8D, \h8E, \h8C, \h0E, \h2E, \h4E, \h6E, \h0D, \h2D, \h4D, \hEE,
     \hCE, \h6D, \hED, \hCD, \hEC, \hCC, \h2C, \hB9, \hBD}
\* BPL, BMI, BVC, BVS, BCC, BCS, BNE, BEQ
BranchOpcodes == {\h10, \h30, \h50, \h70, \h90, \hB0, \hD0, \hF0}
ReadsTwoBytes ==
    TwoByteOperandOpcodes \cup {\hE6, \hC6, \h20, \h4C, \h6C}
ReadsOneByte ==
    (OneByteOperandOpcodes \ {\hE6, \hC6}) \cup BranchOpcodes

\* The addresses emulateCPU reads with readMemory before it is done: the
\* opcode, its operand bytes, and the 16-bit address of LDA absolute and
\* indexed, ASL absolute, JMP indirect and BRK.  Every other operand address
\* is below 0x8000.
OperandReads(c) ==
    LET opcode == readMemory(c, c.programCounter)
    IN  IF opcode \in ReadsTwoBytes
        THEN {U16(c.programCounter + 1), U16(c.programCounter + 2)}
        ELSE IF opcode \in ReadsOneByte
             THEN {U16(c.programCounter + 1)}
             ELSE {}
DataReads(c) ==
    LET opcode == readMemory(c, c.programCounter)
        ptr == AbsOperand(IncPC(c))
    IN  CASE opcode \in {\hAD, \h0E} -> {ptr}
          [] opcode = \hB9 -> {U16(ptr + c.Y)}
          [] opcode = \hBD -> {U16(ptr + c.X)}
          [] opcode = \h6C ->
                {ptr, IF Lo(ptr) = 255 THEN ptr - Lo(ptr) ELSE U16(ptr + 1)}
          [] opcode = \h00 -> {BRK_VECTOR, BRK_VECTOR + 1}
          [] OTHER -> {}

\* Every byte the iteration reads is a byte of the file or a byte drawn for
\* a vector: none is a byte past the end of the buffer left Indeterminate.
Determinate(c) ==
    /\ readMemory(c, c.programCounter) # Indeterminate
    /\ \A a \in OperandReads(c) : readMemory(c, a) # Indeterminate
    /\ \A a \in DataReads(c) : readMemory(c, a) # Indeterminate

\* One iteration of the loop of run: traceLog, emulateCPU, i++
runStep ==
    /\ pc = "run"
    /\ LoopCondition(cpu, i)
    /\ Determinate(cpu)
    /\ cpu' = emulateCPU(cpu)
    /\ i' = i + 1
    /\ UNCHANGED <<filePath, pc, call>>

\* An iteration that reads a byte past the end of the buffer that stayed
\* Indeterminate: what it does depends on memory the program never set, and
\* the run is followed no further.
runJunk ==
    /\ pc = "run"
    /\ LoopCondition(cpu, i)
    /\ ~Determinate(cpu)
    /\ pc' = "indeterminate"
    /\ UNCHANGED <<filePath, cpu, i, call>>

\* The loop condition is false: run returns and main returns.
runExit ==
    /\ pc = "run"
    /\ ~LoopCondition(cpu, i)
    /\ pc' = "done"
    /\ UNCHANGED <<filePath, cpu, i, call>>

Next == init \/ initFault \/ runStep \/ runJunk \/ runExit

Spec == Init /\ [][Next]_vars

(***************************************************************************)
(* readMemory and the opcode fetch over the whole address space.  The      *)
(* object is taken from a run of the probe program: after its store for a  *)
(* call of readMemory(a), after its jump for a fetch from a.               *)
(***************************************************************************)
RECURSIVE AfterSteps(_, _)
AfterSteps(c, n) == IF n = 0 THEN c ELSE AfterSteps(emulateCPU(c), n - 1)

AfterReset(path) == reset(Constructed([k \in 1..6 |-> FALSE]), Files(path))

\* The byte the probe program stores and the probe file holds.
ProbeValues == {\h5B}

\* Fetches are probed at every FetchStride-th address and at the edges of
\* the regions.
FetchStride == 61
RegionEdges == {0, \h7FF, \h800, \h1FFF, \h2000, \h7FFF, \h8000, \hFFFF}
FetchAddresses == {a \in 0..65535 : a % FetchStride = 0} \cup RegionEdges

MemInit ==
    /\ \E a \in 0..65535, v \in ProbeValues :
          /\ filePath = [kind |-> "probe", a |-> a, v |-> v]
          /\ \/ /\ call = [op |-> "readMemory", address |-> a, done |-> FALSE, ret |-> 0]
                /\ cpu = AfterSteps(AfterReset(filePath), 2)
                /\ i = 2
             \/ /\ a \in FetchAddresses
                /\ call = [op |-> "emulateCPU", address |-> a, done |-> FALSE, ret |-> 0]
                /\ cpu = AfterSteps(AfterReset(filePath), 3)
                /\ i = 3
    /\ pc = "run"

\* ret = readMemory(address)
CallReadMemory ==
    /\ call.op = "readMemory"
    /\ ~call.done
    /\ call' = [call EXCEPT !.done = TRUE, !.ret = readMemory(cpu, call.address)]
    /\ UNCHANGED <<filePath, cpu, pc, i>>

\* One iteration of the loop of run with _programCounter = address; ret is
\* the opcode it fetched.
CallEmulateCPU ==
    /\ call.op = "emulateCPU"
    /\ ~call.done
    /\ LoopCondition(cpu, i)
    /\ cpu' = emulateCPU(cpu)
    /\ i' = i + 1
    /\ call' = [call EXCEPT !.done = TRUE, !.ret = readMemory(cpu, cpu.programCounter)]
    /\ UNCHANGED <<filePath, pc>>

MemNext == CallReadMemory \/ CallEmulateCPU

SpecMem == MemInit /\ [][MemNext]_vars

(***************************************************************************)
(* pushStack and pullStack called n times each, from the object a program  *)
(* leaves after LDX #sp; TXS.                                              *)
(***************************************************************************)
MaxPush == 3
PushValues == {\h00, \h5B, \hFF}

\* The short sequences, and two long ones that fill the stack page and
\* overrun it by one byte.
LongPush(n) == [k \in 1..n |-> (k * 37) % 251]
PushSequences ==
    UNION {[1..n -> PushValues] : n \in 0..MaxPush}
LongSequences == {LongPush(256), LongPush(257)}

StackInit ==
    /\ \E sp \in Byte, seq \in PushSequences \cup LongSequences :
          /\ seq \in LongSequences => sp \in StackPointers
          /\ filePath = [kind |-> "stack", sp |-> sp]
          /\ cpu = AfterSteps(AfterReset(filePath), 2)
          /\ call = [op |-> "stack", sp0 |-> sp, toPush |-> seq, pushed |-> 0,
                     pulled |-> <<>>]
    /\ pc = "run"
    /\ i = 2

\* pushStack(toPush[pushed + 1])
CallPushStack ==
    /\ call.op = "stack"
    /\ call.pushed < Len(call.toPush)
    /\ cpu' = pushStack(cpu, call.toPush[call.pushed + 1])
    /\ call' = [call EXCEPT !.pushed = call.pushed + 1]
    /\ UNCHANGED <<filePath, pc, i>>

\* pulled.push_back(pullStack()), once every byte is pushed
CallPullStack ==
    /\ call.op = "stack"
    /\ call.pushed = Len(call.toPush)
    /\ Len(call.pulled) < Len(call.toPush)
    /\ LET p == pullStack(cpu)
       IN  /\ cpu' = p.cpu
           /\ call' = [call EXCEPT !.pulled = Append(call.pulled, p.value)]
    /\ UNCHANGED <<filePath, pc, i>>

StackNext == CallPushStack \/ CallPullStack

SpecStack == StackInit /\ [][StackNext]_vars

(***************************************************************************)
(* Single instructions and short instruction sequences.  The object is     *)
(* taken from a run of a program that prepares the registers, the flags    *)
(* and the memory; the steps are iterations of the loop of run.            *)
(***************************************************************************)
RtiPaths == [kind : {"rti"}, P : BrkSites, f : BrkFlags, sp : StackPointers]

\* BPL, BMI, BVC, BVS, BCC, BCS, BNE, BEQ at the start and at the end of a
\* page, forwards and backwards, with N, V, Z, C all clear and all set.
BranchSites == {\h8100, \h8140, \h81FD}
BranchOffsets == {\h00, \h02, \h7F, \h80, \hFD}
BranchPaths ==
    [kind : {"branch"}, op : BranchOpcodes, P : BranchSites,
     off : BranchOffsets, f : {\h00, \hC3}]

\* The iterations that prepare the object, and the iterations observed.
Prep(path) ==
    CASE path.kind = "rti" -> 6
      [] path.kind = "branch" -> 4
      [] path.kind = "jmpind" -> 6
      [] path.kind = "operand" -> 8
      [] path.kind = "arith" -> 2
      [] path.kind = "status" -> 4
      [] path.kind = "at" -> 6
      [] path.kind = "regs" -> 2 * Len(path.cells) + 6
      [] path.kind = "stackop" -> 2 * Len(path.cells) + 6

Steps(path) ==
    CASE path.kind = "rti" -> 2
      [] path.kind = "branch" -> 1
      [] path.kind = "jmpind" -> 1
      [] path.kind = "operand" -> 1
      [] path.kind = "arith" -> 2
      [] path.kind = "status" -> 3
      [] path.kind = "at" -> 1
      [] path.kind = "regs" -> 1
      [] path.kind = "stackop" -> 1

\* JMP (p) with p in RAM, in the unmapped region and in ROM, at the end
\* of a page and elsewhere.
JmpPointers ==
    {\h0200, \h02FE, \h02FF, \h07FF, \h3000, \h30FF, \h9000, \h90FE, \h90FF,
     \hFEFF, \hFFFF}
JmpPaths ==
    {[kind |-> "jmpind", p |-> p, lo |-> t[1], hi |-> t[2], other |-> t[3]] :
        p \in JmpPointers, t \in {<<\h34, \h12, \h56>>, <<\h00, \h80, \h07>>}}

\* The instructions that must set Zero and Negative from their result, by
\* where the result is: immediate operand, memory cell 0x10, register.
ImmediateOpcodes == {\hA9, \hA2, \hA0, \h09, \h29, \h49}
MemoryOpcodes ==
    {\hA5, \hAD, \hB9, \hBD, \hB5, \h05, \h0D, \h25, \h2D, \h45, \h4D,
     \h06, \h0E, \h26, \h2E, \h46, \h4E, \h66, \h6E, \hE6, \hEE, \hC6, \hCE}
RegisterOpcodes ==
    {\h68, \hAA, \h8A, \hA8, \h98, \hBA, \hE8, \hC8, \hCA, \h88, \h0A, \h4A, \h6A}
ZnPaths ==
    {[kind |-> "operand", op |-> op, a |-> a, x |-> 0, y |-> 0, m |-> v,
      mv |-> 0, c |-> 0] : op \in ImmediateOpcodes, v \in Byte, a \in {\h00, \h55, \hFF}}
    \cup {[kind |-> "operand", op |-> op, a |-> \h55, x |-> 0, y |-> 0, m |-> \h10,
           mv |-> v, c |-> c] : op \in MemoryOpcodes, v \in Byte, c \in {0, 1}}
    \cup {[kind |-> "operand", op |-> op, a |-> v, x |-> v, y |-> v, m |-> 0,
           mv |-> 0, c |-> c] : op \in RegisterOpcodes, v \in Byte, c \in {0, 1}}

\* CMP, CPX, CPY: the register values (in A, X and Y alike) and, for every
\* one of them, all 256 operands, immediate and in memory cell 0x10.
CompareRegisters == {\h00, \h01, \h7F, \h80, \h81, \hFF}
CompareImmediate == {\hC9, \hE0, \hC0}
CompareMemory == {\hC5, \hCD, \hE4, \hEC, \hC4, \hCC}
ComparePaths ==
    {[kind |-> "operand", op |-> op, a |-> r, x |-> r, y |-> r, m |-> v,
      mv |-> 0, c |-> 0] : op \in CompareImmediate, r \in CompareRegisters, v \in Byte}
    \cup {[kind |-> "operand", op |-> op, a |-> r, x |-> r, y |-> r, m |-> \h10,
           mv |-> v, c |-> 1] : op \in CompareMemory, r \in CompareRegisters, v \in Byte}

\* PLP of every byte, then PHP and PLP.
StatusPaths == [kind : {"status"}, f : Byte, sp : StackPointers]

OpPaths ==
    RtiPaths \cup BranchPaths \cup JmpPaths \cup ZnPaths \cup ComparePaths
    \cup StatusPaths

OpInit ==
    /\ filePath \in OpPaths
    /\ cpu = AfterSteps(AfterReset(filePath), Prep(filePath))
    /\ i = Prep(filePath)
    /\ pc = "run"
    /\ call = [op |-> "steps", left |-> Steps(filePath), pre |-> cpu]

\* One iteration of the loop of run; call.pre keeps the object the first
\* observed iteration started from.
CallStep ==
    /\ call.op = "steps"
    /\ call.left > 0
    /\ LoopCondition(cpu, i)
    /\ cpu' = emulateCPU(cpu)
    /\ i' = i + 1
    /\ call' = [call EXCEPT !.left = call.left - 1]
    /\ UNCHANGED <<filePath, pc>>

OpNext == CallStep

SpecOp == OpInit /\ [][OpNext]_vars

(***************************************************************************)
(* ADC and SBC: ADC #b; SBC #b and SBC #b; ADC #b from every accumulator   *)
(* and either carry, and the memory modes with the operand in cell 0x10.   *)
(***************************************************************************)
\* The operands: every ArithStride-th byte and the bytes at the sign and
\* carry boundaries.
ArithStride == 8
ArithOperands ==
    {b \in Byte : b % ArithStride = 0} \cup {\h01, \h7F, \h80, \h81, \hFE, \hFF}
ArithPaths ==
    [kind : {"arith"}, ops : {<<\h69, \hE9>>, <<\hE9, \h69>>}, a : Byte,
     b : ArithOperands, c : {0, 1}]
    \cup {[kind |-> "operand", op |-> op, a |-> r, x |-> 0, y |-> 0, m |-> \h10,
           mv |-> v, c |-> c] :
             op \in {\h65, \h6D, \hE5, \hED}, r \in CompareRegisters, v \in Byte,
             c \in {0, 1}}

ArithInit ==
    /\ filePath \in ArithPaths
    /\ cpu = AfterSteps(AfterReset(filePath), Prep(filePath))
    /\ i = Prep(filePath)
    /\ pc = "run"
    /\ call = [op |-> "steps", left |-> Steps(filePath), pre |-> cpu]

SpecArith == ArithInit /\ [][OpNext]_vars

(***************************************************************************)
(* One instruction at P, run from the object that LDX #sp; TXS; LDA #f;    *)
(* PHA; PLP; JMP P leaves: the flags are those of the byte f, A = f,       *)
(* X = SP = sp, Y = 0.                                                     *)
(***************************************************************************)
FlagOpcodes == {\h38, \h18, \h78, \h58, \hF8, \hD8, \hB8}
FlagPaths ==
    {[kind |-> "at", P |-> P, f |-> f, sp |-> \hFD, code |-> <<op, \h02>>] :
        P \in {\h8100}, f \in Byte, op \in FlagOpcodes}

\* ASL, LSR, ROL, ROR on the accumulator and on memory cell 0x10, for every
\* value, either carry, and Negative clear (LDY #$00) or set (LDY #$80)
\* before the step.
ShiftAccumulator == {\h0A, \h4A, \h6A}
ShiftZeroPage == {\h06, \h26, \h46, \h66}
ShiftAbsolute == {\h0E, \h2E, \h4E, \h6E}
ShiftPaths ==
    {[kind |-> "operand", op |-> op, a |-> v, x |-> 0, y |-> y, m |-> \h10,
      mv |-> v, c |-> c] :
        op \in ShiftAccumulator \cup ShiftZeroPage \cup ShiftAbsolute,
        v \in Byte, c \in {0, 1}, y \in {\h00, \h80}}

\* AND/ORA/EOR, INC/DEC and the register increments, the stores and BIT in
\* every mode handleOpcode has for them, with the operand bytes 10 00, from
\* several flag bytes and register values.
LogicOpcodes == {\h29, \h25, \h2D, \h09, \h05, \h0D, \h49, \h45, \h4D}
IncDecOpcodes == {\hE6, \hEE, \hC6, \hCE, \hE8, \hC8, \hCA, \h88}
StoreOpcodes == {\h85, \h8D, \h95, \h91, \h81, \h86, \h8E, \h84, \h8C}
BitOpcodes == {\h24, \h2C}
FramePaths ==
    {[kind |-> "regs", f |-> f, a |-> a, x |-> xy[1], y |-> xy[2],
      cells |-> <<<<\h10, mv>>>>, code |-> <<op, \h10, \h00>>] :
        f \in BrkFlags, a \in {\h00, \h5B, \hFF},
        xy \in {<<\h00, \hFF>>, <<\hFF, \h00>>, <<\h01, \h7F>>},
        mv \in {\h00, \hFF},
        op \in LogicOpcodes \cup IncDecOpcodes \cup StoreOpcodes \cup BitOpcodes}

StepPaths == FlagPaths

\* The object the prologue of one of the given programs leaves, ready for
\* the iterations observed.
StepFrom(paths) ==
    /\ filePath \in paths
    /\ cpu = AfterSteps(AfterReset(filePath), Prep(filePath))
    /\ i = Prep(filePath)
    /\ pc = "run"
    /\ call = [op |-> "steps", left |-> Steps(filePath), pre |-> cpu]

StepInit == StepFrom(StepPaths)

SpecStep == StepInit /\ [][OpNext]_vars

ShiftInit == StepFrom(ShiftPaths)

SpecShift == ShiftInit /\ [][OpNext]_vars

FrameInit == StepFrom(FramePaths)

SpecFrame == FrameInit /\ [][OpNext]_vars

\* Every instruction of handleOpcode that is not a branch, jump, call,
\* return or interrupt, followed by each of three pairs of bytes.
LengthPaths ==
    {[kind |-> "regs", f |-> f, a |-> \h5B, x |-> \h01, y |-> \h02,
      cells |-> <<<<\h10, \h80>>>>, code |-> <<op>> \o bytes] :
        f \in {\h00, \hC3},
        bytes \in {<<\h10, \h00>>, <<\hFF, \h07>>, <<\h34, \h02>>},
        op \in ImpliedOpcodes \cup OneByteOperandOpcodes \cup TwoByteOperandOpcodes}

LengthInit == StepFrom(LengthPaths)

SpecLength == LengthInit /\ [][OpNext]_vars

\* The absolute-mode instructions with the operand bytes lo, hi, the byte v
\* at hi * 256 + lo and the byte w at lo (w alone where hi is 0).
AbsoluteReads == {\h6D, \hED, \h2D, \h0D, \h4D, \hCD, \hEC, \hCC, \h2C, \hAD}
AbsoluteWrites == {\hEE, \hCE, \h2E, \h4E, \h6E, \h0E, \h8D}
AbsoluteOperands == {<<\h34, \h02>>, <<\h10, \h00>>, <<\hFF, \h07>>, <<\h00, \h01>>}
AbsolutePaths ==
    {[kind |-> "regs", f |-> f, a |-> a, x |-> \h7F, y |-> \h80,
      cells |-> <<<<Word(m[2], m[1]), v>>, <<m[1], w>>>>,
      code |-> <<op, m[1], m[2]>>] :
        f \in {\h00, \hC3}, a \in {\h5B, \h80}, m \in AbsoluteOperands,
        v \in {\h00, \h7F, \h80, \hFF}, w \in {\h01, \hFE},
        op \in AbsoluteReads \cup AbsoluteWrites}

AbsoluteInit == StepFrom(AbsolutePaths)

SpecAbsolute == AbsoluteInit /\ [][OpNext]_vars

\* The eight branches at the start and the end of a page and just below
\* the top of the address space, forwards and backwards, from flag bytes
\* that make each of them taken and not taken.
TargetSites == {\h8100, \h81FD, \hFFF0}
TargetPaths ==
    [kind : {"branch"}, op : BranchOpcodes, P : TargetSites,
     off : {\h00, \h02, \h0F, \h7F, \h80, \hFD, \hFF}, f : {\h00, \h41, \hC3}]

TargetInit == StepFrom(TargetPaths)

SpecTarget == TargetInit /\ [][OpNext]_vars

\* LDA base,X and LDA base,Y with the index in the register the instruction
\* uses and index + 1 in the other; 0x11 at base + index, 0x55 at base and
\* 0x33 at the address the index gives without a carry into the high byte
\* (each at its RAM cell).
IndexedBases == {\h00FF, \h01F0, \h0200, \h07FF, \h8000, \hFFF0}
IndexValues == {\h00, \h01, \h0F, \h10, \h20, \hFF}
IndexedPaths ==
    {[kind |-> "regs", f |-> f, a |-> \h5B,
      x |-> IF op = \hBD THEN idx ELSE U8(idx + 1),
      y |-> IF op = \hB9 THEN idx ELSE U8(idx + 1),
      cells |-> <<<<Word(Hi(base), U8(Lo(base) + idx)) % RAM_SIZE, \h33>>,
                  <<base % RAM_SIZE, \h55>>,
                  <<U16(base + idx) % RAM_SIZE, \h11>>>>,
      code |-> <<op, Lo(base), Hi(base)>>] :
        f \in {\h00, \hC3}, base \in IndexedBases, idx \in IndexValues,
        op \in {\hB9, \hBD}}

IndexedInit == StepFrom(IndexedPaths)

SpecIndexed == IndexedInit /\ [][OpNext]_vars

\* STA zp,X; LDA zp,X; ADC zp,X; STA (zp,X); STA (zp),Y with p the wrapped
\* and u the unwrapped zero-page address the instruction starts from: 0x21
\* at p and 0x02 after it within the zero page, and 0x22, 0x04 and 0x03 at
\* the cells a computation that does not wrap would use.
ZeroPageOpcodes == {\h95, \hB5, \h75, \h81, \h91}
ZeroPageBases == {\h00, \h10, \h80, \hFE, \hFF}
ZeroPagePaths ==
    {[kind |-> "regs", f |-> f, a |-> \h5B, x |-> x, y |-> y,
      cells |-> LET u == IF op = \h91 THEN zp ELSE zp + x
                    p == u % 256
                IN  <<<<u + 1, \h04>>, <<u, \h22>>, <<p + 1, \h03>>,
                      <<(p + 1) % 256, \h02>>, <<p, \h21>>>>,
      code |-> <<op, zp>>] :
        f \in {\h00, \hC3}, zp \in ZeroPageBases,
        x \in {\h00, \h01, \h02, \h7F, \h80, \hFF}, y \in {\h00, \h01, \hFF},
        op \in ZeroPageOpcodes}

ZeroPageInit == StepFrom(ZeroPagePaths)

SpecZeroPage == ZeroPageInit /\ [][OpNext]_vars

\* PHA, PLA, PHP, PLP, JSR, RTS, BRK, RTI from stack pointers at both ends
\* of the stack page and in the middle of it, with different bytes at the
\* ends of the page and in the cells on either side of it.
StackOpcodes == {\h48, \h68, \h08, \h28, \h20, \h60, \h00, \h40}
StackCells ==
    <<<<\h00FF, \h66>>, <<\h0200, \h77>>, <<\h0100, \h11>>, <<\h0101, \h22>>,
      <<\h01FF, \h44>>>>
StackOpPaths ==
    {[kind |-> "stackop", f |-> f, a |-> \h5B, sp |-> sp, cells |-> StackCells,
      code |-> <<op, \h00, \h90>>] :
        f \in {\h00, \hC3, \hFF},
        sp \in {\h00, \h01, \h02, \h80, \hFC, \hFD, \hFE, \hFF},
        op \in StackOpcodes}

StackOpInit == StepFrom(StackOpPaths)

SpecStackOps == StackOpInit /\ [][OpNext]_vars

(***************************************************************************)
(* The case labels of handleOpcode.                                        *)
(***************************************************************************)
KnownOpcodes ==
    {\h02, \hA0, \hA2, \hA5, \hA9, \hAD, \h85, \h8D, \h86, \h8E, \h84, \h8C,
     \h10, \h30, \hD0, \hF0, \h48, \h68, \h20, \h60, \hEA, \hE8, \hC8, \hCA,
     \h88, \hAA, \h8A, \hA8, \h98, \h9A, \hBA, \h38, \h18, \hB8, \h78, \h58,
     \hF8, \hD8, \h08, \h28, \h0A, \h06, \h0E, \h26, \h2E, \h4A, \h46, \h4E,
     \h6A, \h66, \h6E, \h09, \h05, \h0D, \h29, \h25, \h2D, \h49, \h45, \h4D,
     \hE6, \hEE, \hC6, \hCE, \h69, \h65, \h6D, \hE9, \hE5, \hED, \hC9, \hC5,
     \hCD, \hE0, \hE4, \hEC, \hC0, \hC4, \hCC, \h24, \h2C, \h00, \h40, \h4C,
     \h70, \hB0, \h90, \h50, \hB9, \hBD, \h6C, \h95, \hB5, \h75, \h91, \h81}

\* The step from this state to the next is an iteration of the loop of run.
LoopIteration == pc = "run" /\ i' = i + 1

\* The opcode the next iteration fetches.
FetchedOpcode == readMemory(cpu, cpu.programCounter)

(***************************************************************************)
(* Claims.                                                                 *)
(***************************************************************************)

\* C1: with the ROM A9 05 8D 00 02 A9 00 8D 01 02 4C 00 80 at 0x8000 and the
\* reset vector 0x8000, once five instructions have run RAM[0x200] is 0x05
\* and RAM[0x201] is 0x00 and they stay so in every later state, and Halted
\* is set in no reachable state.
C1_EndToEnd ==
    (filePath.kind = "e2e" /\ pc # "constructed") =>
        /\ ~cpu.cpuHalted
        /\ (i >= 5 => Cell(cpu.ram, \h200) = \h05 /\ Cell(cpu.ram, \h201) = \h00)
        /\ (i >= 5 /\ i % 5 = 0 => cpu.programCounter = ORG)

\* The second pass of the loop has stored again and is on the jump.
C1_Witness ==
    /\ filePath.kind = "e2e"
    /\ i = 9
    /\ cpu.programCounter = ORG + 10
    /\ Cell(cpu.ram, \h200) = \h05
    /\ cpu.A = 0

\* C2: once Halted is true it stays true and no further iteration runs: the
\* registers, the flags, RAM, the cycle count (the whole object) and the
\* iteration counter never change again.
C2_HaltedAbsorbing == [][cpu.cpuHalted => (cpu' = cpu /\ i' = i)]_vars

\* run has returned after the stop opcode 0x02 halted the CPU.
C2_Witness ==
    /\ filePath = [kind |-> "opcode", b |-> \h02]
    /\ cpu.cpuHalted
    /\ cpu.programCounter = ORG + 1
    /\ pc = "done"

\* C3: an iteration that fetches a byte with no case label sets Halted,
\* advances PC by exactly 1 (mod 2^16) and leaves every other member (A, X,
\* Y, SP, the six flags, RAM, the cycle count) as it was before the fetch.
C3_UnknownOpcode ==
    [][(LoopIteration /\ FetchedOpcode \notin KnownOpcodes) =>
          cpu' = [cpu EXCEPT !.cpuHalted = TRUE,
                             !.programCounter = (cpu.programCounter + 1) % 65536]]_vars

\* Opcode 0xFF at 0xFFFF has halted the CPU and PC has wrapped to 0.
C3_Witness ==
    /\ filePath = [kind |-> "top", b |-> \hFF]
    /\ cpu.cpuHalted
    /\ cpu.programCounter = 0
    /\ cpu.cycleCount = 0
    /\ i = 1

\* C4: the loop imposes no step limit and stops only in a state where
\* Halted is true: run never returns with Halted false.
C4_StopsOnlyWhenHalted == pc = "done" => cpu.cpuHalted

\* The addresses readMemory maps to neither array.
Unmapped(a) == a >= \h800 /\ a < \h8000

\* C5 as stated: readMemory(a) is RAM[a mod 2048] for every a below 0x2000
\* and ROM[a - 0x8000] for every a from 0x8000.
C5_ReadDecoding ==
    (call.op = "readMemory" /\ call.done) =>
        /\ call.address < \h2000 => call.ret = Cell(cpu.ram, call.address % 2048)
        /\ call.address >= \h8000 => call.ret = Cell(cpu.rom, call.address - \h8000)

\* C7: a read of an address in neither array returns 0 and changes nothing;
\* a fetch from such an address does not halt and is decoded as opcode 0x00
\* (BRK: three pushes, 7 cycles, PC from the vector at 0xFFFE), after which
\* the loop goes on.
C7_UnmappedRead ==
    [][/\ (call.op = "readMemory" /\ ~call.done /\ call'.done /\ Unmapped(call.address)) =>
             (call'.ret = 0 /\ cpu' = cpu)
       /\ (call.op = "emulateCPU" /\ ~call.done /\ call'.done /\ Unmapped(call.address)) =>
             /\ call'.ret = 0
             /\ ~cpu'.cpuHalted
             /\ LoopCondition(cpu', i')
             /\ cpu'.stackPointer = (cpu.stackPointer + 256 - 3) % 256
             /\ cpu'.cycleCount = cpu.cycleCount + 7
             /\ cpu'.programCounter = STOP
             /\ <<cpu'.A, cpu'.X, cpu'.Y>> = <<cpu.A, cpu.X, cpu.Y>>]_vars

\* A fetch from 0x2000 was decoded as BRK and the CPU runs on at the vector.
C7_Witness ==
    /\ call.op = "emulateCPU"
    /\ call.done
    /\ call.address = \h2000
    /\ ~cpu.cpuHalted
    /\ cpu.programCounter = STOP
    /\ cpu.stackPointer = \hFA

\* The register an absolute store writes.
StoredRegister(opcode) ==
    CASE opcode = \h8D -> cpu.A [] opcode = \h8E -> cpu.X [] opcode = \h8C -> cpu.Y

\* The two operand bytes of the instruction at PC, as an address.
OperandWord ==
    readMemory(cpu, (cpu.programCounter + 1) % 65536)
    + 256 * readMemory(cpu, (cpu.programCounter + 2) % 65536)

\* C6: a write to any address a (RAM, the unmapped region or ROM) changes
\* exactly RAM[a mod 2048] (compared on every cell either state holds; the
\* cells neither holds are 0 in both), shown on the absolute stores STA, STX, STY, which
\* change nothing else but PC and the cycle count; and no iteration after
\* reset changes a byte of the ROM or of the header.
C6_WritePolicy ==
    [][LoopIteration =>
          /\ cpu'.rom = cpu.rom
          /\ cpu'.header = cpu.header
          /\ FetchedOpcode \in {\h8D, \h8E, \h8C} =>
                /\ \A k \in DOMAIN cpu.ram \cup DOMAIN cpu'.ram \cup {OperandWord % 2048} :
                      Cell(cpu'.ram, k) = IF k = OperandWord % 2048
                                          THEN StoredRegister(FetchedOpcode)
                                          ELSE Cell(cpu.ram, k)
                /\ cpu' = [cpu EXCEPT !.ram = cpu'.ram,
                                      !.programCounter = (cpu.programCounter + 3) % 65536,
                                      !.cycleCount = cpu.cycleCount + 4]]_vars

\* STA $8009 has stored 0x5B in RAM[9]; the ROM byte at 0x8009 is still the
\* STA opcode.
C6_Witness ==
    /\ filePath = [kind |-> "store", a |-> \h8009, v |-> \h5B]
    /\ i = 5
    /\ Cell(cpu.ram, 9) = \h5B
    /\ Cell(cpu.rom, 9) = \h8D
    /\ Cell(cpu.ram, \h7FF) = \h77

\* The bytes the n pulls must return: the pushed bytes in reverse order.
Reverse(seq) == [k \in 1..Len(seq) |-> seq[Len(seq) + 1 - k]]

RoundTripDone ==
    /\ call.op = "stack"
    /\ call.pushed = Len(call.toPush)
    /\ Len(call.pulled) = Len(call.toPush)

\* C8 as stated: for any n, n pulls after n pushes return the pushed bytes in
\* reverse order and restore the stack pointer.
C8_StackRoundTrip ==
    RoundTripDone =>
        (call.pulled = Reverse(call.toPush) /\ cpu.stackPointer = call.sp0)

\* C8, amended: the same for any n up to 256, the size of the stack page.
C8_StackRoundTripInPage ==
    (RoundTripDone /\ Len(call.toPush) <= 256) =>
        (call.pulled = Reverse(call.toPush) /\ cpu.stackPointer = call.sp0)

\* 256 bytes were pushed from SP = 0x01, wrapping through 0x00, and pulled.
C8_Witness ==
    /\ RoundTripDone
    /\ Len(call.toPush) = 256
    /\ call.sp0 = 1
    /\ call.pulled[1] = call.toPush[256]

\* C9: JSR at P with target T pushes the high byte of P+2 at 0x0100+SP and
\* the low byte below it, and sets PC = T; the RTS at T then sets PC = P+3
\* and restores SP.  (In the JSR program iteration 6 is the JSR and
\* iteration 7 the RTS.)
C9_JsrRts ==
    (filePath.kind = "jsr" /\ pc = "run") =>
        LET P == filePath.P
            T == filePath.T
            sp == filePath.sp
            ret == (P + 2) % 65536
        IN  /\ i = 5 => (cpu.programCounter = P /\ cpu.stackPointer = sp)
            /\ i = 6 =>
                  /\ cpu.programCounter = T
                  /\ cpu.stackPointer = (sp + 254) % 256
                  /\ Cell(cpu.ram, 256 + sp) = ret \div 256
                  /\ Cell(cpu.ram, 256 + ((sp + 255) % 256)) = ret % 256
            /\ i = 7 =>
                  /\ cpu.programCounter = (P + 3) % 65536
                  /\ cpu.stackPointer = sp

\* JSR at 0xA0FD to 0xC0DE with SP = 0 has returned to 0xA100.
C9_Witness ==
    /\ filePath = [kind |-> "jsr", P |-> \hA0FD, T |-> \hC0DE, sp |-> 0]
    /\ i = 7
    /\ cpu.programCounter = \hA100
    /\ cpu.stackPointer = 0
    /\ Cell(cpu.ram, \h100) = \hA0
    /\ Cell(cpu.ram, \h1FF) = \hFF

\* The status byte of the flags of the current state, bits 5 and 4 set.
StatusByte ==
    (IF cpu.flagNegative THEN 128 ELSE 0) + (IF cpu.flagOverflow THEN 64 ELSE 0)
    + 32 + 16
    + (IF cpu.flagDecimal THEN 8 ELSE 0) + (IF cpu.flagInterruptDisable THEN 4 ELSE 0)
    + (IF cpu.flagZero THEN 2 ELSE 0) + (IF cpu.flagCarry THEN 1 ELSE 0)

\* C10: an iteration that fetches BRK at P stores the high byte of P+2 at
\* 0x0100+SP, the low byte at 0x0100+SP-1 and the status byte of the flags
\* before the step at 0x0100+SP-2 (SP-1, SP-2 mod 256), sets
\* InterruptDisable, loads PC from 0xFFFE (low) and 0xFFFF (high), lowers SP
\* by 3 (mod 256) and leaves A, X, Y and the other five flags unchanged.
C10_Brk ==
    [][(LoopIteration /\ FetchedOpcode = \h00) =>
          LET P == cpu.programCounter
              ret == (P + 2) % 65536
              sp == cpu.stackPointer
          IN  /\ \A k \in DOMAIN cpu.ram \cup DOMAIN cpu'.ram
                             \cup {256 + sp, 256 + ((sp + 255) % 256),
                                   256 + ((sp + 254) % 256)} :
                    Cell(cpu'.ram, k) =
                        IF k = 256 + ((sp + 254) % 256) THEN StatusByte
                        ELSE IF k = 256 + ((sp + 255) % 256) THEN ret % 256
                        ELSE IF k = 256 + sp THEN ret \div 256
                        ELSE Cell(cpu.ram, k)
              /\ cpu'.stackPointer = (sp + 253) % 256
              /\ cpu'.flagInterruptDisable
              /\ cpu'.programCounter = Cell(cpu.rom, \h7FFE) + 256 * Cell(cpu.rom, \h7FFF)
              /\ <<cpu'.A, cpu'.X, cpu'.Y>> = <<cpu.A, cpu.X, cpu.Y>>
              /\ <<cpu'.flagCarry, cpu'.flagZero, cpu'.flagDecimal,
                   cpu'.flagOverflow, cpu'.flagNegative>>
                 = <<cpu.flagCarry, cpu.flagZero, cpu.flagDecimal,
                     cpu.flagOverflow, cpu.flagNegative>>]_vars

\* BRK at 0x80FF with flags N, V, Z, C set and SP = 0x01 has pushed 0x81,
\* 0x01 and 0xF3 (wrapping to 0x01FF) and jumped to the vector.
C10_Witness ==
    /\ filePath = [kind |-> "brk", P |-> \h80FF, f |-> \hC3, sp |-> 1]
    /\ i = 7
    /\ cpu.programCounter = STOP
    /\ cpu.stackPointer = \hFE
    /\ Cell(cpu.ram, \h101) = \h81
    /\ Cell(cpu.ram, \h100) = \h01
    /\ Cell(cpu.ram, \h1FF) = \hF3
    /\ cpu.flagInterruptDisable

\* The six flags of an object.
Flags(c) ==
    <<c.flagNegative, c.flagOverflow, c.flagDecimal, c.flagInterruptDisable,
      c.flagZero, c.flagCarry>>

\* C11: BRK at P followed at once by RTI (the vector at 0xFFFE points at an
\* RTI) ends with PC = P+2, and with the six flags and SP as they were
\* before the BRK.
C11_BrkRti ==
    (call.op = "steps" /\ filePath.kind = "rti") =>
        /\ call.pre.programCounter = filePath.P
        /\ call.left = 2 => readMemory(cpu, cpu.programCounter) = \h00
        /\ call.left = 1 =>
              /\ readMemory(cpu, cpu.programCounter) = \h40
              /\ cpu.flagInterruptDisable
        /\ call.left = 0 =>
              /\ cpu.programCounter = (filePath.P + 2) % 65536
              /\ Flags(cpu) = Flags(call.pre)
              /\ cpu.stackPointer = call.pre.stackPointer

\* BRK at 0x80FF with all flags clear and SP = 0x01, then RTI: PC = 0x8101,
\* InterruptDisable clear again, SP = 0x01.
C11_Witness ==
    /\ call.op = "steps"
    /\ filePath = [kind |-> "rti", P |-> \h80FF, f |-> \h00, sp |-> 1]
    /\ call.left = 0
    /\ cpu.programCounter = \h8101
    /\ ~cpu.flagInterruptDisable
    /\ cpu.stackPointer = 1
    /\ cpu.cycleCount = call.pre.cycleCount + 13

\* Whether the branch opcode branches in the current state.
BranchTaken(opcode) ==
    CASE opcode = \h10 -> ~cpu.flagNegative
      [] opcode = \h30 -> cpu.flagNegative
      [] opcode = \h50 -> ~cpu.flagOverflow
      [] opcode = \h70 -> cpu.flagOverflow
      [] opcode = \h90 -> ~cpu.flagCarry
      [] opcode = \hB0 -> cpu.flagCarry
      [] opcode = \hD0 -> ~cpu.flagZero
      [] opcode = \hF0 -> cpu.flagZero

\* C12 as stated: a conditional branch adds 2 cycles when not taken, 3 when
\* taken within the page of the PC after the operand, 4 when taken across a
\* page.
C12_BranchTiming ==
    [][(LoopIteration /\ FetchedOpcode \in BranchOpcodes) =>
          LET next == (cpu.programCounter + 2) % 65536
          IN  cpu'.cycleCount - cpu.cycleCount =
                 IF ~BranchTaken(FetchedOpcode) THEN 2
                 ELSE IF cpu'.programCounter \div 256 = next \div 256 THEN 3
                 ELSE 4]_vars

\* C13: JMP (p) reads the target low byte from p and the high byte from
\* the start of the page of p when the low byte of p is 0xFF (p = 0x30FF:
\* from 0x3000), from p+1 otherwise; PC becomes high * 256 + low.
C13_IndirectJump ==
    [][(LoopIteration /\ FetchedOpcode = \h6C) =>
          LET p == OperandWord
              highAt == IF p % 256 = 255 THEN p - 255 ELSE (p + 1) % 65536
          IN  /\ cpu'.programCounter =
                    256 * readMemory(cpu, highAt) + readMemory(cpu, p)
              /\ cpu' = [cpu EXCEPT !.programCounter = cpu'.programCounter,
                                    !.cycleCount = cpu.cycleCount + 5]]_vars

\* JMP ($90FF) with 0x34 at 0x90FF, 0x12 at 0x9000 and 0x56 at 0x9100 has
\* jumped to 0x1234.
C13_Witness ==
    /\ call.op = "steps"
    /\ filePath = [kind |-> "jmpind", p |-> \h90FF, lo |-> \h34, hi |-> \h12,
                   other |-> \h56]
    /\ call.left = 0
    /\ Cell(cpu.rom, \h1100) = \h56
    /\ cpu.programCounter = \h1234

\* The opcodes of C14 by the place of their result after the step.
ResultInA ==
    {\hA9, \hA5, \hAD, \hB9, \hBD, \hB5, \h68, \h8A, \h98,
     \h09, \h05, \h0D, \h29, \h25, \h2D, \h49, \h45, \h4D, \h0A, \h4A, \h6A}
ResultInX == {\hA2, \hAA, \hBA, \hE8, \hCA}
ResultInY == {\hA0, \hA8, \hC8, \h88}
ResultInZeroPage == {\h06, \h26, \h46, \h66, \hE6, \hC6}
ResultInAbsolute == {\h0E, \h2E, \h4E, \h6E, \hEE, \hCE}

\* C14 as stated: after every load, transfer other than TXS, logical,
\* increment/decrement and shift/rotate instruction, LSR Absolute included,
\* Zero = (result = 0) and Negative = bit 7 of the result.
C14_ZeroNegative ==
    [][(LoopIteration /\ FetchedOpcode \in
            ResultInA \cup ResultInX \cup ResultInY \cup ResultInZeroPage
            \cup ResultInAbsolute) =>
          LET opcode == FetchedOpcode
              result ==
                  CASE opcode \in ResultInA -> cpu'.A
                    [] opcode \in ResultInX -> cpu'.X
                    [] opcode \in ResultInY -> cpu'.Y
                    [] opcode \in ResultInZeroPage ->
                          Cell(cpu'.ram, OperandWord % 256)
                    [] opcode \in ResultInAbsolute ->
                          Cell(cpu'.ram, OperandWord % 2048)
          IN  /\ cpu'.flagZero = (result = 0)
              /\ cpu'.flagNegative = (result >= 128)]_vars

\* The byte after the opcode, and the byte the operand of an instruction
\* in the given mode designates.
OperandByte == readMemory(cpu, (cpu.programCounter + 1) % 65536)
ImmediateModes == {\hC9, \hE0, \hC0, \h69, \hE9}
ZeroPageModes == {\hC5, \hE4, \hC4, \h65, \hE5}
AbsoluteModes == {\hCD, \hEC, \hCC, \h6D, \hED}
OperandOf(opcode) ==
    CASE opcode \in ImmediateModes -> OperandByte
      [] opcode \in ZeroPageModes -> readMemory(cpu, OperandByte)
      [] opcode \in AbsoluteModes -> readMemory(cpu, OperandWord)

\* C15 as stated: CMP, CPX and CPY set Carry = (r >= m), Zero = (r = m),
\* Negative = bit 7 of (r - m) mod 256, and change no register.
C15_Compare ==
    [][(LoopIteration /\ FetchedOpcode \in CompareImmediate \cup CompareMemory) =>
          LET opcode == FetchedOpcode
              r == CASE opcode \in {\hC9, \hC5, \hCD} -> cpu.A
                     [] opcode \in {\hE0, \hE4, \hEC} -> cpu.X
                     [] opcode \in {\hC0, \hC4, \hCC} -> cpu.Y
              m == OperandOf(opcode)
          IN  /\ cpu'.flagCarry = (r >= m)
              /\ cpu'.flagZero = (r = m)
              /\ cpu'.flagNegative = (((r - m) % 256) >= 128)
              /\ <<cpu'.A, cpu'.X, cpu'.Y, cpu'.stackPointer>>
                 = <<cpu.A, cpu.X, cpu.Y, cpu.stackPointer>>]_vars

\* The carry as a number, and a byte as a signed number.
CarryIn == IF cpu.flagCarry THEN 1 ELSE 0
AsSigned(b) == IF b >= 128 THEN b - 256 ELSE b

\* C16: ADC gives A' = (A+m+c) mod 256, Carry = (A+m+c > 255), Overflow =
\* (the signed sum is outside -128..127); SBC gives A' = (A-m-(1-c)) mod 256,
\* Carry = (A-m-(1-c) >= 0), Overflow = (the signed difference is outside
\* -128..127); both set Zero and Negative from A'.
C16_AdcSbc ==
    [][/\ (LoopIteration /\ FetchedOpcode \in {\h69, \h65, \h6D}) =>
             LET m == OperandOf(FetchedOpcode)
                 sum == cpu.A + m + CarryIn
                 signed == AsSigned(cpu.A) + AsSigned(m) + CarryIn
             IN  /\ cpu'.A = sum % 256
                 /\ cpu'.flagCarry = (sum > 255)
                 /\ cpu'.flagOverflow = (signed < -128 \/ signed > 127)
                 /\ cpu'.flagZero = (cpu'.A = 0)
                 /\ cpu'.flagNegative = (cpu'.A >= 128)
       /\ (LoopIteration /\ FetchedOpcode \in {\hE9, \hE5, \hED}) =>
             LET m == OperandOf(FetchedOpcode)
                 diff == cpu.A - m - (1 - CarryIn)
                 signed == AsSigned(cpu.A) - AsSigned(m) - (1 - CarryIn)
             IN  /\ cpu'.A = diff % 256
                 /\ cpu'.flagCarry = (diff >= 0)
                 /\ cpu'.flagOverflow = (signed < -128 \/ signed > 127)
                 /\ cpu'.flagZero = (cpu'.A = 0)
                 /\ cpu'.flagNegative = (cpu'.A >= 128)]_vars

\* ADC #$01 from A = 0x7F with the carry set has given 0x81 with Overflow
\* set and Carry clear.
C16_Witness ==
    /\ call.op = "steps"
    /\ filePath = [kind |-> "arith", ops |-> <<\h69, \hE9>>, a |-> \h7F, b |-> 1,
                   c |-> 1]
    /\ call.left = 1
    /\ cpu.A = \h81
    /\ cpu.flagOverflow
    /\ ~cpu.flagCarry
    /\ cpu.flagNegative

\* ADC #b; SBC #b has run from A = a.
AdcSbcDone ==
    /\ call.op = "steps"
    /\ filePath.kind = "arith"
    /\ filePath.ops = <<\h69, \hE9>>
    /\ call.left = 0

\* C17 as stated: ADC #b then SBC #b, the SBC taking the carry the ADC
\* left, gives back the accumulator, for every a, b and carry before the ADC.
C17_AdcSbcRoundTrip ==
    AdcSbcDone => cpu.A = filePath.a

\* C17, amended: with c the carry before the ADC and c2 the carry the ADC
\* leaves, the accumulator ends as (a + c + c2 - 1) mod 256: it is a
\* exactly when one of the two carries is set and the other is clear.
C17_AdcSbcRoundTripCarry ==
    AdcSbcDone =>
        LET a == filePath.a
            c == filePath.c
            c2 == IF a + filePath.b + c > 255 THEN 1 ELSE 0
        IN  /\ call.pre.A = a
            /\ call.pre.flagCarry = (c = 1)
            /\ cpu.A = (a + c + c2 - 1) % 256
            /\ (cpu.A = a) <=> (c + c2 = 1)

\* From a = 0xFF with the carry clear, ADC #$01 carries out and SBC #$01
\* gives 0xFF back.
C17_Witness ==
    /\ AdcSbcDone
    /\ filePath.a = \hFF
    /\ filePath.b = \h01
    /\ filePath.c = 0
    /\ cpu.A = \hFF

\* The six flags (N, V, D, I, Z, C) a status byte stands for, taken from the
\* byte with bits 5 and 4 cleared.
FlagsOfByte(b) ==
    LET masked == b - 32 * ((b \div 32) % 2) - 16 * ((b \div 16) % 2)
    IN  <<(masked \div 128) % 2 = 1, (masked \div 64) % 2 = 1,
          (masked \div 8) % 2 = 1, (masked \div 4) % 2 = 1,
          (masked \div 2) % 2 = 1, masked % 2 = 1>>

\* C18: PHP pushes N<<7 | V<<6 | 1<<5 | 1<<4 | D<<3 | I<<2 | Z<<1 | C and
\* changes no flag; PLP sets the six flags from bits 7, 6, 3, 2, 1, 0 of the
\* pulled byte whatever its bits 5 and 4; PHP followed by PLP restores the
\* six flags and the stack pointer.
C18_StatusPackUnpack ==
    [][/\ (LoopIteration /\ FetchedOpcode = \h08) =>
             /\ Cell(cpu'.ram, 256 + cpu.stackPointer) = StatusByte
             /\ cpu'.stackPointer = (cpu.stackPointer + 255) % 256
             /\ Flags(cpu') = Flags(cpu)
       /\ (LoopIteration /\ FetchedOpcode = \h28) =>
             LET pulled == Cell(cpu.ram, 256 + ((cpu.stackPointer + 1) % 256))
             IN  /\ Flags(cpu') = FlagsOfByte(pulled)
                 /\ cpu'.stackPointer = (cpu.stackPointer + 1) % 256
                 /\ cpu'.ram = cpu.ram
       /\ (LoopIteration /\ call.op = "steps" /\ filePath.kind = "status") =>
             /\ call.left = 2 =>
                   /\ FetchedOpcode = \h08
                   /\ cpu.stackPointer = filePath.sp
                   /\ Flags(cpu) = FlagsOfByte(filePath.f)
             /\ call.left = 1 =>
                   /\ FetchedOpcode = \h28
                   /\ cpu'.stackPointer = filePath.sp
                   /\ Flags(cpu') = FlagsOfByte(filePath.f)]_vars

\* With N, Z and C set by PLP of 0x83 at SP = 0x00, PHP has pushed 0xB3 at
\* 0x0100 and PLP has pulled it: the flags and SP are as before the PHP.
C18_Witness ==
    /\ call.op = "steps"
    /\ filePath = [kind |-> "status", f |-> \h83, sp |-> 0]
    /\ call.left = 0
    /\ Cell(cpu.ram, \h100) = \hB3
    /\ cpu.stackPointer = 0
    /\ Flags(cpu) = <<TRUE, FALSE, FALSE, FALSE, TRUE, TRUE>>

\* The file main was given, and the step in which init returns from reset.
GivenFile == Files(filePath)
ResetReturns == pc = "constructed" /\ pc' = "run"

\* C19: after a reset with a full-size image, ROM is image bytes 16..32783,
\* the header is image bytes 0..15, PC = ROM[0x7FFC] + 256 * ROM[0x7FFD],
\* A = X = Y = 0, SP = 0xFD, InterruptDisable is set and the other five
\* flags are clear.  (ROM is compared on every cell the object or the image
\* holds; the cells neither holds are 0 in both.)
C19_ResetState ==
    [][ResetReturns =>
          LET file == GivenFile
              held == {o - 16 : o \in {x \in DOMAIN file.bytes : x >= 16}}
          IN  (file.exists /\ file.size >= FULL_SIZE) =>
                 /\ \A k \in DOMAIN cpu'.rom \cup held :
                       Cell(cpu'.rom, k) = Cell(file.bytes, k + 16)
                 /\ \A k \in 0..15 : cpu'.header[k] = Cell(file.bytes, k)
                 /\ cpu'.programCounter =
                       Cell(cpu'.rom, \h7FFC) + 256 * Cell(cpu'.rom, \h7FFD)
                 /\ <<cpu'.A, cpu'.X, cpu'.Y>> = <<0, 0, 0>>
                 /\ cpu'.stackPointer = \hFD
                 /\ Flags(cpu') = <<FALSE, FALSE, FALSE, TRUE, FALSE, FALSE>>]_vars

\* The JSR image is loaded: PC is its reset vector 0xA000, the header starts
\* with "NES", the object was constructed with other flags.
C19_Witness ==
    /\ pc = "run"
    /\ i = 0
    /\ filePath = [kind |-> "jsr", P |-> \hA0FD, T |-> \hC0DE, sp |-> 0]
    /\ cpu.programCounter = \hA000
    /\ cpu.header[0] = \h4E
    /\ Cell(cpu.rom, \h7FFD) = \hA0
    /\ Cell(cpu.rom, \h40DE) = \h60
    /\ cpu.stackPointer = \hFD

\* C20 as stated: for an image shorter than 16 + 32768 bytes the load fails
\* with an error outcome: no header or ROM byte is copied and the reset
\* vector is not read.
C20_ImageSizeError ==
    [][(pc = "constructed" /\ GivenFile.exists /\ GivenFile.size < FULL_SIZE) =>
          /\ pc' \notin {"run", "crashed"}
          /\ cpu'.rom = cpu.rom
          /\ cpu'.header = cpu.header
          /\ cpu'.programCounter = 0]_vars

\* The documented cost of every recognized instruction but HLT: the base
\* cycles of its addressing mode and the most its conditional penalties
\* (branch taken, page crossed) can add.
BaseCost(opcode) ==
    CASE opcode \in {\hA0, \hA2, \hA9, \hEA, \hE8, \hC8, \hCA, \h88, \hAA, \h8A,
                     \hA8, \h98, \h9A, \hBA, \h38, \h18, \hB8, \h78, \h58, \hF8,
                     \hD8, \h0A, \h4A, \h6A, \h09, \h29, \h49, \h69, \hE9, \hC9,
                     \hE0, \hC0} -> 2
      [] opcode \in BranchOpcodes -> 2
      [] opcode \in {\hA5, \h85, \h86, \h84, \h48, \h08, \h05, \h25, \h45, \h65,
                     \hE5, \hC5, \hE4, \hC4, \h24, \h4C} -> 3
      [] opcode \in {\hAD, \h8D, \h8E, \h8C, \h68, \h28, \h0D, \h2D, \h4D, \h6D,
                     \hED, \hCD, \hEC, \hCC, \h2C, \hB9, \hBD, \h95, \hB5, \h75} -> 4
      [] opcode \in {\h06, \h26, \h46, \h66, \hE6, \hC6, \h6C} -> 5
      [] opcode \in {\h20, \h60, \h0E, \h2E, \h4E, \h6E, \hEE, \hCE, \h40, \h91,
                     \h81} -> 6
      [] opcode = \h00 -> 7
MaxPenalty(opcode) ==
    IF opcode \in BranchOpcodes THEN 2
    ELSE IF opcode \in {\hB9, \hBD} THEN 1
    ELSE 0

\* C21 as stated: the cycle count never decreases, and a step that executes
\* a recognized instruction other than HLT increases it by the base cost of
\* the instruction plus at most its conditional penalties.
C21_CycleCounter ==
    [][/\ cpu'.cycleCount >= cpu.cycleCount
       /\ (LoopIteration /\ FetchedOpcode \in KnownOpcodes \ {\h02}) =>
             LET added == cpu'.cycleCount - cpu.cycleCount
             IN  /\ added >= BaseCost(FetchedOpcode)
                 /\ added <= BaseCost(FetchedOpcode) + MaxPenalty(FetchedOpcode)]_vars

\* The object after an instruction of the given length and cost that
\* changes nothing else.
Advanced(c, length, cost) ==
    [c EXCEPT !.programCounter = (c.programCounter + length) % 65536,
              !.cycleCount = c.cycleCount + cost]

\* C22: SEC, CLC, SEI, CLI, SED, CLD, CLV set or clear their one flag; the
\* other five flags, A, X, Y, SP, RAM and Halted are unchanged, PC advances
\* by 1 and the cycle count by 2.
C22_FlagInstructions ==
    [][(LoopIteration /\ FetchedOpcode \in FlagOpcodes) =>
          LET opcode == FetchedOpcode
              n == Advanced(cpu, 1, 2)
          IN  cpu' = CASE opcode = \h38 -> [n EXCEPT !.flagCarry = TRUE]
                       [] opcode = \h18 -> [n EXCEPT !.flagCarry = FALSE]
                       [] opcode = \h78 -> [n EXCEPT !.flagInterruptDisable = TRUE]
                       [] opcode = \h58 -> [n EXCEPT !.flagInterruptDisable = FALSE]
                       [] opcode = \hF8 -> [n EXCEPT !.flagDecimal = TRUE]
                       [] opcode = \hD8 -> [n EXCEPT !.flagDecimal = FALSE]
                       [] opcode = \hB8 -> [n EXCEPT !.flagOverflow = FALSE]]_vars

\* CLC has run with all six flags set: only Carry is clear now.
C22_Witness ==
    /\ call.op = "steps"
    /\ filePath = [kind |-> "at", P |-> \h8100, f |-> \hFF, sp |-> \hFD,
                   code |-> <<\h18, \h02>>]
    /\ call.left = 0
    /\ Flags(cpu) = <<TRUE, TRUE, TRUE, TRUE, TRUE, FALSE>>
    /\ cpu.programCounter = \h8101
    /\ cpu.cycleCount = call.pre.cycleCount + 2

\* C23 as stated: with v the accumulator or the memory operand and c the
\* carry before the step, ASL writes back (2v) mod 256, LSR v div 2, ROL
\* ((2v) mod 256) + c, ROR (v div 2) + 128c; Carry becomes bit 7 of v for
\* ASL and ROL, bit 0 of v for LSR and ROR; LSR leaves Negative clear.
C23_ShiftRotate ==
    [][(LoopIteration /\ FetchedOpcode \in
            ShiftAccumulator \cup ShiftZeroPage \cup ShiftAbsolute) =>
          LET opcode == FetchedOpcode
              at == IF opcode \in ShiftZeroPage THEN OperandByte
                    ELSE OperandWord % 2048
              v == IF opcode \in ShiftAccumulator THEN cpu.A
                   ELSE IF opcode \in ShiftZeroPage THEN readMemory(cpu, OperandByte)
                   ELSE readMemory(cpu, OperandWord)
              written == IF opcode \in ShiftAccumulator THEN cpu'.A
                         ELSE Cell(cpu'.ram, at)
          IN  /\ written =
                    CASE opcode \in {\h0A, \h06, \h0E} -> (2 * v) % 256
                      [] opcode \in {\h4A, \h46, \h4E} -> v \div 2
                      [] opcode \in {\h26, \h2E} -> ((2 * v) % 256) + CarryIn
                      [] opcode \in {\h6A, \h66, \h6E} -> (v \div 2) + 128 * CarryIn
              /\ cpu'.flagCarry =
                    IF opcode \in {\h0A, \h06, \h0E, \h26, \h2E}
                    THEN v >= 128
                    ELSE v % 2 = 1
              /\ opcode \in {\h4A, \h46, \h4E} => ~cpu'.flagNegative]_vars

\* C24: AND/ORA/EOR and INC/DEC/INX/INY/DEX/DEY leave Carry and Overflow as
\* they were; STA/STX/STY change no flag and none of A, X, Y, SP; BIT
\* leaves the accumulator and Carry as they were.
C24_FlagsUntouched ==
    [][LoopIteration =>
          LET opcode == FetchedOpcode
          IN  /\ opcode \in LogicOpcodes \cup IncDecOpcodes =>
                    /\ cpu'.flagCarry = cpu.flagCarry
                    /\ cpu'.flagOverflow = cpu.flagOverflow
              /\ opcode \in StoreOpcodes =>
                    /\ Flags(cpu') = Flags(cpu)
                    /\ <<cpu'.A, cpu'.X, cpu'.Y, cpu'.stackPointer>> =
                            <<cpu.A, cpu.X, cpu.Y, cpu.stackPointer>>
              /\ opcode \in BitOpcodes =>
                    /\ cpu'.A = cpu.A
                    /\ cpu'.flagCarry = cpu.flagCarry]_vars

\* INC $0010 has turned 0xFF into 0x00 with Carry clear and Overflow set
\* before and after.
C24_Witness ==
    /\ filePath.kind = "regs" /\ filePath.code = <<\hEE, \h10, \h00>>
    /\ filePath.f = \h40 /\ filePath.cells = <<<<\h10, \hFF>>>>
    /\ call.left = 0
    /\ Cell(call.pre.ram, \h10) = \hFF /\ Cell(cpu.ram, \h10) = \h00
    /\ call.pre.flagOverflow /\ cpu.flagOverflow
    /\ ~call.pre.flagCarry /\ ~cpu.flagCarry
    /\ cpu.flagZero

\* C25 as stated: an instruction that is not a control transfer leaves PC
\* at the opcode address plus 1 plus the operand length of its addressing
\* mode: 0 for implied and accumulator, 1 for immediate, zero-page,
\* zero-page-indexed and indirect-indexed, 2 for absolute and
\* absolute-indexed; INC Zero Page and DEC Zero Page advance PC by 2.
C25_OperandLength ==
    [][LoopIteration =>
          LET opcode == FetchedOpcode
              at == cpu.programCounter
          IN  /\ opcode \in ImpliedOpcodes =>
                    cpu'.programCounter = (at + 1) % 65536
              /\ opcode \in OneByteOperandOpcodes =>
                    cpu'.programCounter = (at + 2) % 65536
              /\ opcode \in TwoByteOperandOpcodes =>
                    cpu'.programCounter = (at + 3) % 65536]_vars

\* The accumulator and flags an absolute-mode instruction that reads its
\* operand leaves when the operand is the byte v, and the RAM one that
\* writes leaves when its operand is the cell ea.
AfterRead(opcode, v) ==
    LET n == CASE opcode = \h6D -> opADC(cpu, v)
               [] opcode = \hED -> opSBC(cpu, v)
               [] opcode = \h2D -> opAND(cpu, v)
               [] opcode = \h0D -> opORA(cpu, v)
               [] opcode = \h4D -> opEOR(cpu, v)
               [] opcode = \hCD -> opCMP(cpu, v)
               [] opcode = \hEC -> CompareInt(cpu, cpu.X, v)
               [] opcode = \hCC -> CompareInt(cpu, cpu.Y, v)
               [] opcode = \h2C -> opBIT(cpu, v)
               [] opcode = \hAD -> SetZN([cpu EXCEPT !.A = v], v)
    IN  <<n.A, Flags(n)>>
AfterWrite(opcode, ea) ==
    LET v == readMemory(cpu, ea)
    IN  (CASE opcode = \hEE -> opINC(cpu, ea, v)
           [] opcode = \hCE -> opDEC(cpu, ea, v)
           [] opcode = \h2E -> opROL(cpu, ea, v)
           [] opcode = \h4E -> writeMemory(cpu, ea, v \div 2)
           [] opcode = \h6E -> ROR_Memory(cpu, ea)
           [] opcode = \h0E -> ASL_Memory(cpu, ea)
           [] opcode = \h8D -> writeMemory(cpu, ea, cpu.A)).ram

\* C26 as stated: an absolute-mode instruction with the operand bytes low,
\* high reads its operand from high * 256 + low and writes its result
\* there.
C26_AbsoluteAddress ==
    [][LoopIteration =>
          LET opcode == FetchedOpcode
          IN  /\ opcode \in AbsoluteReads =>
                    /\ <<cpu'.A, Flags(cpu')>> =
                            AfterRead(opcode, readMemory(cpu, OperandWord))
                    /\ cpu'.ram = cpu.ram
              /\ opcode \in AbsoluteWrites =>
                    cpu'.ram = AfterWrite(opcode, OperandWord)]_vars

\* C27: a conditional branch with the operand byte o at Q sets PC to
\* (Q + 1 + s) mod 65536 when its condition holds, s being o read as a
\* signed byte, and to Q + 1 when it does not; nothing but PC and the cycle
\* count changes.
C27_BranchTarget ==
    [][(LoopIteration /\ FetchedOpcode \in BranchOpcodes) =>
          LET Q == (cpu.programCounter + 1) % 65536
              o == readMemory(cpu, Q)
              s == IF o < 128 THEN o ELSE o - 256
          IN  /\ cpu'.programCounter =
                    IF BranchTaken(FetchedOpcode)
                    THEN (Q + 1 + s + 65536) % 65536
                    ELSE (Q + 1) % 65536
              /\ [cpu' EXCEPT !.programCounter = 0, !.cycleCount = 0] =
                    [cpu EXCEPT !.programCounter = 0, !.cycleCount = 0]]_vars

\* BCC at 0xFFF0 with the operand 0x7F and Carry clear has wrapped PC to
\* 0x0071; BPL at 0x8100 with the operand 0xFD has gone back to 0x80FF.
C27_Witness ==
    /\ filePath.kind = "branch" /\ call.left = 0
    /\ \/ /\ filePath.op = \h90 /\ filePath.off = \h7F
          /\ call.pre.programCounter = \hFFF0 /\ ~call.pre.flagCarry
          /\ cpu.programCounter = \h0071
       \/ /\ filePath.op = \h10 /\ filePath.off = \hFD
          /\ call.pre.programCounter = \h8100 /\ ~call.pre.flagNegative
          /\ cpu.programCounter = \h80FF

\* C28: LDA Absolute,X and LDA Absolute,Y load the byte at
\* (base + index) mod 65536 and add 4 to the cycle count, and 1 more exactly
\* when the high byte of base + index differs from the high byte of base.
C28_IndexedPenalty ==
    [][(LoopIteration /\ FetchedOpcode \in {\hB9, \hBD}) =>
          LET base == OperandWord
              index == IF FetchedOpcode = \hB9 THEN cpu.Y ELSE cpu.X
              ea == (base + index) % 65536
          IN  /\ cpu'.A = readMemory(cpu, ea)
              /\ cpu'.cycleCount - cpu.cycleCount =
                    4 + (IF ea \div 256 # base \div 256 THEN 1 ELSE 0)]_vars

\* LDA $01F0,X with X = 0x20 has loaded the 0x11 at 0x0210 for 5 cycles, and
\* LDA $01F0,Y with Y = 0x0F the 0x11 at 0x01FF for 4.
C28_Witness ==
    /\ filePath.kind = "regs" /\ call.left = 0 /\ cpu.A = \h11
    /\ \/ /\ filePath.code = <<\hBD, \hF0, \h01>> /\ call.pre.X = \h20
          /\ Cell(call.pre.ram, \h0210) = \h11
          /\ cpu.cycleCount = call.pre.cycleCount + 5
       \/ /\ filePath.code = <<\hB9, \hF0, \h01>> /\ call.pre.Y = \h0F
          /\ Cell(call.pre.ram, \h01FF) = \h11
          /\ cpu.cycleCount = call.pre.cycleCount + 4

\* C29: STA zp,X, LDA zp,X and ADC zp,X use the address (zp + X) mod 256;
\* STA (zp,X) takes its pointer from (zp + X) mod 256 and
\* (zp + X + 1) mod 256, STA (zp),Y from zp and (zp + 1) mod 256.
C29_ZeroPageWrap ==
    [][(LoopIteration /\ FetchedOpcode \in ZeroPageOpcodes) =>
          LET opcode == FetchedOpcode
              zp == OperandByte
              ea == (zp + cpu.X) % 256
              pointer(at) ==
                  readMemory(cpu, at) + 256 * readMemory(cpu, (at + 1) % 256)
          IN  /\ ea \in 0..255
              /\ opcode = \h95 => cpu'.ram = Store(cpu.ram, ea, cpu.A)
              /\ opcode = \hB5 => cpu'.A = readMemory(cpu, ea)
              /\ opcode = \h75 =>
                    cpu'.A = (cpu.A + readMemory(cpu, ea) + CarryIn) % 256
              /\ opcode = \h81 =>
                    cpu'.ram = Store(cpu.ram, pointer(ea) % RAM_SIZE, cpu.A)
              /\ opcode = \h91 =>
                    cpu'.ram = Store(cpu.ram,
                                     ((pointer(zp) + cpu.Y) % 65536) % RAM_SIZE,
                                     cpu.A)]_vars

\* STA ($FF),Y with Y = 1 has taken the pointer 0x0221 from 0x00FF and
\* 0x0000 and stored the accumulator at 0x0222; LDA $FF,X with X = 2 has
\* loaded the byte at 0x0001.
C29_Witness ==
    /\ filePath.kind = "regs" /\ call.left = 0
    /\ \/ /\ filePath.code = <<\h91, \hFF>> /\ call.pre.Y = \h01
          /\ Cell(call.pre.ram, \hFF) = \h21 /\ Cell(call.pre.ram, \h00) = \h02
          /\ Cell(call.pre.ram, \h0100) = \h03
          /\ Cell(call.pre.ram, \h0222) = 0 /\ Cell(cpu.ram, \h0222) = \h5B
       \/ /\ filePath.code = <<\hB5, \hFF>> /\ call.pre.X = \h02
          /\ Cell(call.pre.ram, \h01) = \h21 /\ Cell(call.pre.ram, \h0101) = \h22
          /\ cpu.A = \h21

\* C30: the stack pointer is always in 0..255.  PHA, PHP, JSR and BRK write
\* only the cells 0x0100 + SP, 0x0100 + (SP - 1) mod 256, ... of their one,
\* one, two and three pushes and leave SP reduced by that number mod 256;
\* PLA, PLP, RTS and RTI write nothing, leave SP increased mod 256 by the
\* number of their pulls, and take the bytes they pull from the cells
\* 0x0100 + (SP + 1) mod 256, ...; none of them halts the CPU.
C30_StackConfined ==
    [][/\ cpu.stackPointer \in 0..255 /\ cpu'.stackPointer \in 0..255
       /\ (LoopIteration /\ FetchedOpcode \in StackOpcodes) =>
             LET opcode == FetchedOpcode
                 sp == cpu.stackPointer
                 above(k) == STACK_BASE + ((sp + k) % 256)
                 below(k) == STACK_BASE + ((sp + 256 - k) % 256)
                 pushes == CASE opcode \in {\h48, \h08} -> 1
                             [] opcode = \h20 -> 2
                             [] opcode = \h00 -> 3
                             [] OTHER -> 0
                 pulls == CASE opcode \in {\h68, \h28} -> 1
                            [] opcode = \h60 -> 2
                            [] opcode = \h40 -> 3
                            [] OTHER -> 0
             IN  /\ cpu'.stackPointer = (sp + 256 - pushes + pulls) % 256
                 /\ \A k \in (DOMAIN cpu.ram \cup DOMAIN cpu'.ram)
                                \ {below(j) : j \in 0..(pushes - 1)} :
                        Cell(cpu'.ram, k) = Cell(cpu.ram, k)
                 /\ opcode = \h48 => Cell(cpu'.ram, below(0)) = cpu.A
                 /\ opcode = \h08 => Cell(cpu'.ram, below(0)) = StatusByte
                 /\ opcode = \h68 => cpu'.A = Cell(cpu.ram, above(1))
                 /\ opcode = \h28 =>
                        Flags(cpu') = FlagsOfByte(Cell(cpu.ram, above(1)))
                 /\ opcode = \h60 =>
                        cpu'.programCounter =
                            (Cell(cpu.ram, above(1))
                             + 256 * Cell(cpu.ram, above(2)) + 1) % 65536
                 /\ opcode = \h40 =>
                        /\ Flags(cpu') = FlagsOfByte(Cell(cpu.ram, above(1)))
                        /\ cpu'.programCounter =
                                Cell(cpu.ram, above(2))
                                + 256 * Cell(cpu.ram, above(3))
                 /\ cpu'.cpuHalted = cpu.cpuHalted]_vars

\* RTI from SP = 0xFE has pulled the status from 0x01FF and PC from 0x0100
\* and 0x0101, leaving SP = 0x01; BRK from SP = 0x01 has written 0x0101,
\* 0x0100 and 0x01FF and left SP = 0xFE; neither halted.
C30_Witness ==
    /\ filePath.kind = "stackop" /\ call.left = 0 /\ ~cpu.cpuHalted
    /\ \/ /\ filePath.code[1] = \h40 /\ call.pre.stackPointer = \hFE
          /\ cpu.stackPointer = \h01
          /\ cpu.programCounter = \h2211
          /\ Flags(cpu) = FlagsOfByte(\h44)
       \/ /\ filePath.code[1] = \h00 /\ call.pre.stackPointer = \h01
          /\ cpu.stackPointer = \hFE
          /\ Cell(cpu.ram, \h01FF) # Cell(call.pre.ram, \h01FF)
          /\ Cell(cpu.ram, \h0200) = \h77 /\ Cell(cpu.ram, \h00FF) = \h66

====
